---- MODULE Spec2Model ----
(***************************************************************************)
(* State-machine model of the swap pricing and execution engine of the     *)
(* XRP wallet / KRW IOU api-server: fee computation (SwapFeeConfig),       *)
(* the exchange-rate registry (ExchangeRate and its writers), the access   *)
(* gate (PermissionedDomain) and the swap orchestration (AdminIOUService,  *)
(* UserIOUService).                                                        *)
(*                                                                         *)
(* Numbers.  A JavaScript Number n is modelled by the integer n * Scale    *)
(* (thousandths).  Amounts fed to the model are whole units, so every      *)
(* product amount * rate taken by the code is exact in the model.          *)
(* A nullable value is a sequence of length at most one: <<>> is null (or  *)
(* "no document"), <<v>> is the value v.                                   *)
(***************************************************************************)
EXTENDS Integers, Sequences, FiniteSets, TLC

VARIABLES
    feeCfg, feeAmount, feeOut,
    rates, now, rproc, lastOp, rateQuery,
    domain, adminInit, feeConfigs, swap, ledger, swapResult, swapCount,
    feeQuery, permQuery, domOp,
    dproc, lines, issued

feeVars  == <<feeCfg, feeAmount, feeOut>>
rateVars == <<rates, now, rproc, lastOp, rateQuery>>
swapVars == <<domain, adminInit, feeConfigs, swap, ledger, swapResult, swapCount>>
\* what the last read-only call returned
queryVars == <<feeQuery, permQuery>>
\* what the last operation on the permissioned domain returned, the callers
\* of the access-list operations, the trust lines the ledger reports for the
\* issuer and the read of the issued total
opVars   == <<domOp, dproc, lines, issued>>
vars     == <<feeVars, rateVars, swapVars, queryVars, opVars>>

-----------------------------------------------------------------------------
(* Numbers and nullable values *)

Scale == 10 * 100

Null == <<>>

Some(v) == <<v>>

IsNull(x) == x = <<>>

Val(x) == x[1]

\* a * b for two scaled numbers, a a whole number of units (exact)
FMul(a, b) == (a \div Scale) * b

\* JavaScript truthiness of a nullable number: null and 0 are falsy
Truthy(x) == ~IsNull(x) /\ Val(x) # 0

\* no read-only call has been made
QueryIdle ==
    /\ feeQuery = Null /\ permQuery = Null /\ domOp = Null
    /\ dproc = <<>> /\ lines = <<>> /\ issued = Null

\* a result read before the clock advanced is no longer the current one
ClearQueries == feeQuery' = Null /\ permQuery' = Null

MinOf(a, b) == IF a < b THEN a ELSE b

MaxOf(a, b) == IF a > b THEN a ELSE b

-----------------------------------------------------------------------------
(* Fee Policy Store: SwapFeeConfig.calculateFee *)

SwapTypes == {"XRP_TO_KRW", "KRW_TO_XRP", "IOU_TRANSFER"}

FeeTypes == {"PERCENTAGE", "FIXED", "TIERED"}

\* amount >= tier.minAmount && (tier.maxAmount === null || amount <= tier.maxAmount)
TierContains(tier, amount) ==
    /\ amount >= tier.minAmount
    /\ (IsNull(tier.maxAmount) \/ amount <= Val(tier.maxAmount))

\* a scan that keeps the last tier that contains the amount
TierFeeLast(tiers, amount) ==
    LET M == {i \in 1 .. Len(tiers) : TierContains(tiers[i], amount)}
    IN  IF M = {} THEN 0
        ELSE FMul(amount, tiers[CHOOSE i \in M : \A j \in M : j <= i].feeRate)

\* the scan of tieredRates: the fee of the first tier that contains the
\* amount, 0 when the list is exhausted
RECURSIVE TierFee(_, _)
TierFee(tiers, amount) ==
    IF tiers = <<>> THEN 0
    ELSE LET tier == Head(tiers) IN
         IF TierContains(tier, amount)
         THEN FMul(amount, tier.feeRate)
         ELSE TierFee(Tail(tiers), amount)

\* the switch on feeType
RawFee(cfg, amount) ==
    CASE cfg.feeType = "PERCENTAGE" -> FMul(amount, cfg.baseFee)
      [] cfg.feeType = "FIXED"      -> cfg.baseFee
      [] cfg.feeType = "TIERED"     -> TierFee(cfg.tieredRates, amount)
      [] OTHER                      -> 0

\* a clamp that applies the maximum before the minimum
ClampFeeMaxFirst(cfg, fee) ==
    LET f1 == IF Truthy(cfg.maxFee) /\ fee > Val(cfg.maxFee)
              THEN Val(cfg.maxFee) ELSE fee
    IN  IF cfg.minFee # 0 /\ f1 < cfg.minFee THEN cfg.minFee ELSE f1

\* if (this.minFee && fee < this.minFee) ...; if (this.maxFee && fee > this.maxFee) ...
ClampFee(cfg, fee) ==
    LET f1 == IF cfg.minFee # 0 /\ fee < cfg.minFee THEN cfg.minFee ELSE fee
    IN  IF Truthy(cfg.maxFee) /\ f1 > Val(cfg.maxFee)
        THEN Val(cfg.maxFee) ELSE f1

\* the result object with a net amount clamped at zero
FeeResultClamped(cfg, amount, fee) ==
    [grossAmount |-> amount,
     fee         |-> fee,
     netAmount   |-> MaxOf(0, amount - fee),
     feeRate     |-> IF cfg.feeType = "PERCENTAGE" THEN Some(cfg.baseFee) ELSE Null,
     feeType     |-> cfg.feeType]

\* the object returned by calculateFee
FeeResult(cfg, amount, fee) ==
    [grossAmount |-> amount,
     fee         |-> fee,
     netAmount   |-> amount - fee,
     feeRate     |-> IF cfg.feeType = "PERCENTAGE" THEN Some(cfg.baseFee) ELSE Null,
     feeType     |-> cfg.feeType]

CalculateFee(cfg, amount) ==
    FeeResult(cfg, amount, ClampFee(cfg, RawFee(cfg, amount)))

-----------------------------------------------------------------------------
(* Document store queries: findOne(filter).sort({key: -1}) *)

\* insert a document before the first one with a smaller key
RECURSIVE InsertDesc(_, _)
InsertDesc(d, sorted) ==
    IF sorted = <<>> THEN <<d>>
    ELSE IF Head(sorted).key < d.key THEN <<d>> \o sorted
         ELSE <<Head(sorted)>> \o InsertDesc(d, Tail(sorted))

\* a sort that leaves the documents in store order
SortDescUnsorted(docs) == docs

\* sort({key: -1}): descending by key
RECURSIVE SortDesc(_)
SortDesc(docs) ==
    IF docs = <<>> THEN <<>>
    ELSE InsertDesc(docs[Len(docs)], SortDesc(SubSeq(docs, 1, Len(docs) - 1)))

\* the documents of a collection that satisfy a filter, in store order
RECURSIVE Filter(_, _)
Filter(docs, keep) ==
    IF docs = <<>> THEN <<>>
    ELSE (IF Head(docs).id \in keep THEN <<Head(docs)>> ELSE <<>>)
         \o Filter(Tail(docs), keep)

Rotate(docs, k) == SubSeq(docs, k + 1, Len(docs)) \o SubSeq(docs, 1, k)

\* findOne(...).sort(...): null when nothing matches, otherwise the head of the
\* sorted matches; the store fixes no order among equal keys, so every scan
\* order of the matches is a possible one
FindOneSorted(matches) ==
    IF matches = <<>> THEN {Null}
    ELSE {Some(Head(SortDesc(Rotate(matches, k)))) : k \in 0 .. Len(matches) - 1}

-----------------------------------------------------------------------------
(* Rate Registry: ExchangeRate queries *)

XRPKRW == "XRP/KRW"

\* isActive: true, validFrom <= now, validTo null or validTo >= now
IsCurrentRate(r, pair, t) ==
    /\ r.pair = pair
    /\ r.isActive
    /\ r.validFrom <= t
    /\ (IsNull(r.validTo) \/ Val(r.validTo) >= t)

CurrentRateIds(store, pair, t) ==
    {store[i].id : i \in {j \in 1 .. Len(store) : IsCurrentRate(store[j], pair, t)}}

WithKey(docs, field) ==
    [i \in 1 .. Len(docs) |-> [key |-> docs[i][field]] @@ docs[i]]

\* ExchangeRate.getCurrentRate(base, quote): the possible results
GetCurrentRate(store, pair, t) ==
    FindOneSorted(WithKey(Filter(store, CurrentRateIds(store, pair, t)), "validFrom"))

-----------------------------------------------------------------------------
(* Fee Policy Store: SwapFeeConfig queries and AdminIOUService.calculateSwapFee *)

\* const SWAP_FEE_RATE = 0.003
SWAP_FEE_RATE == 3

IsCurrentFeeConfig(c, swapType, t) ==
    /\ c.swapType = swapType
    /\ c.isActive
    /\ c.effectiveFrom <= t
    /\ (IsNull(c.effectiveTo) \/ Val(c.effectiveTo) >= t)

CurrentFeeConfigIds(store, swapType, t) ==
    {store[i].id : i \in {j \in 1 .. Len(store) : IsCurrentFeeConfig(store[j], swapType, t)}}

\* SwapFeeConfig.getCurrentFeeConfig(swapType): the possible results
GetCurrentFeeConfig(store, swapType, t) ==
    FindOneSorted(WithKey(Filter(store, CurrentFeeConfigIds(store, swapType, t)),
                          "effectiveFrom"))

\* a fallback that charges no fee
DefaultSwapFeeNone(amount) ==
    [grossAmount |-> amount,
     fee         |-> 0,
     netAmount   |-> amount,
     feeRate     |-> Some(0),
     feeType     |-> "PERCENTAGE"]

\* the hard-coded default used when no configuration is found
DefaultSwapFee(amount) ==
    [grossAmount |-> amount,
     fee         |-> FMul(amount, SWAP_FEE_RATE),
     netAmount   |-> amount - FMul(amount, SWAP_FEE_RATE),
     feeRate     |-> Some(SWAP_FEE_RATE),
     feeType     |-> "PERCENTAGE"]

\* calculateSwapFee(swapType, swapAmount): the possible results
CalculateSwapFee(store, swapType, amount, t) ==
    {IF IsNull(c) THEN DefaultSwapFee(amount) ELSE CalculateFee(Val(c), amount)
        : c \in GetCurrentFeeConfig(store, swapType, t)}

-----------------------------------------------------------------------------
(* Access Gate: PermissionedDomain.isAccountAllowed and
   AdminDomainService.checkTrustLinePermission *)

ValidAddresses == {"rAlice", "rBob"}

\* xrpl.isValidAddress
IsValidXRPAddress(a) == a \in ValidAddresses

InList(list, a) == \E i \in 1 .. Len(list) : list[i].address = a

\* an isAccountAllowed that does not read settings.requireKYC
IsAccountAllowedNoKYC(d, a) ==
    IF d.domainType = "blacklist"
    THEN ~InList(d.blockedAccounts, a)
    ELSE IF d.domainType = "whitelist"
    THEN InList(d.allowedAccounts, a)
    ELSE TRUE

\* permissionedDomainSchema.methods.isAccountAllowed
IsAccountAllowed(d, a) ==
    IF d.domainType = "blacklist"
    THEN ~InList(d.blockedAccounts, a)
    ELSE IF d.domainType = "whitelist"
    THEN \E i \in 1 .. Len(d.allowedAccounts) :
            /\ d.allowedAccounts[i].address = a
            /\ (~d.settings.requireKYC \/ d.allowedAccounts[i].kycStatus = "verified")
    ELSE TRUE

\* a lookup that does not filter on the status
ActiveDomainAny(dom) == dom

\* findOne({issuerAddress, status: 'active'})
ActiveDomain(dom) ==
    IF ~IsNull(dom) /\ Val(dom).status = "active" THEN dom ELSE Null

CheckTrustLinePermission(dom, admin, a) ==
    IF ~IsValidXRPAddress(a)
    THEN [allowed |-> FALSE, reason |-> "Invalid user address"]
    ELSE IF ~admin
    THEN [allowed |-> FALSE, reason |-> "Admin not initialized"]
    ELSE IF IsNull(ActiveDomain(dom))
    THEN [allowed |-> TRUE, reason |-> "No domain restrictions"]
    ELSE IF IsAccountAllowed(Val(dom), a)
    THEN [allowed |-> TRUE, reason |-> "Account is permitted"]
    ELSE [allowed |-> FALSE, reason |-> "Account not in whitelist or blocked"]

-----------------------------------------------------------------------------
(* Swap Orchestrator: UserIOUService.requestXRPToIOUSwap / requestIOUToXRPSwap,
   AdminIOUService.processXRPToIOUSwap / issueKRW / processIOUToXRPSwap *)

MaxValidAmount == 100000000

\* the number of swap requests of a run
MaxSwaps == 2

\* request amounts: 0 (rejected by validation), 100 and 500 units
SwapAmountCases == {0, 100 * Scale, 500 * Scale}

\* ValidationService.isValidAmount: num > 0 && num <= 100000000
IsValidAmount(a) ==
    /\ a > 0
    /\ \/ a \div Scale < MaxValidAmount
       \/ (a \div Scale = MaxValidAmount /\ a % Scale = 0)

\* seeds a caller may pass: two wallets, a string of 20 characters or fewer,
\* and a longer string that is no seed
Seeds == {"sAliceSeed", "sBobSeed", "short", "malformed"}

\* ValidationService.isValidSeed: typeof seed === 'string' && seed.length > 20
IsValidSeed(seed) == seed # "short"

\* xrpl.Wallet.fromSeed: the wallet's address, null when it throws
WalletFromSeed(seed) ==
    CASE seed = "sAliceSeed" -> Some("rAlice")
      [] seed = "sBobSeed"   -> Some("rBob")
      [] OTHER               -> Null

TesSuccess == "tesSUCCESS"

\* the TransactionResult codes the ledger may report for a validated payment:
\* a non-positive amount is never applied
LedgerOutcomes(tx) ==
    IF tx.amount > 0 THEN {TesSuccess, "tecPATH_DRY"} ELSE {"tecPATH_DRY"}

SwapIdle ==
    [pc |-> "idle", kind |-> "none", user |-> "none", amount |-> 0,
     fee |-> Null, leg1 |-> Null, leg2 |-> Null, clientOpen |-> FALSE]

Failure(err) ==
    [success |-> FALSE, error |-> err, status |-> Null, txHash |-> Null,
     returnTxHash |-> Null, xrpTxHash |-> Null]

\* the swap returns its result and the finally block is left out: the client
\* stays connected
FinishOpen(sw, res) ==
    /\ swap' = [sw EXCEPT !.pc = "idle"]
    /\ swapResult' = Some(res)

\* the swap returns: the result is delivered and the request is over
Finish(sw, res) ==
    /\ swap' = [sw EXCEPT !.pc = "idle", !.clientOpen = FALSE]
    /\ swapResult' = Some(res)

Submit(leg, account, dest, amount) ==
    ledger' = Append(ledger, [swap |-> swapCount, user |-> swap.user, leg |-> leg,
                              account |-> account, dest |-> dest, amount |-> amount,
                              state |-> "pending"])

Settle(outcome) ==
    ledger' = [ledger EXCEPT ![Len(ledger)].state = outcome]

\* requestXRPToIOUSwap up to the connection made by issueKRW
RequestXRPToIOUSwap ==
    /\ swap.pc = "idle" /\ swapCount < MaxSwaps
    /\ \E userAddress \in ValidAddresses \cup {"notAnAddress"},
          xrpAmount \in SwapAmountCases :
        LET sw == [SwapIdle EXCEPT !.kind = "XRP_TO_IOU", !.user = userAddress,
                                   !.amount = xrpAmount]
        IN
        /\ swapCount' = swapCount + 1
        /\ UNCHANGED ledger
        /\ IF ~IsValidXRPAddress(userAddress)
           THEN Finish(sw, Failure(<<"Invalid user address">>))
           ELSE IF ~IsValidAmount(xrpAmount)
           THEN Finish(sw, Failure(<<"Invalid XRP amount">>))
           ELSE \E fc \in CalculateSwapFee(feeConfigs, "XRP_TO_KRW", xrpAmount, now) :
                LET sf == [sw EXCEPT !.fee = Some(fc)] IN
                IF ~IsValidAmount(fc.netAmount)
                THEN Finish(sf, Failure(<<"Failed to issue KRW", "Invalid amount">>))
                ELSE IF ~adminInit
                THEN Finish(sf, Failure(<<"Failed to issue KRW", "Admin not initialized">>))
                ELSE /\ swap' = [sf EXCEPT !.pc = "issue_connect"]
                     /\ UNCHANGED swapResult
    /\ UNCHANGED <<domain, adminInit, feeConfigs, feeVars, rateVars, queryVars, opVars>>

\* XRPLService.connectClient in issueKRW: it connects or throws
IssueConnect ==
    /\ swap.pc = "issue_connect"
    /\ \E connected \in BOOLEAN :
        IF connected
        THEN /\ swap' = [swap EXCEPT !.pc = "issue_submit", !.clientOpen = TRUE]
             /\ UNCHANGED swapResult
        ELSE Finish(swap, Failure(<<"connect failed">>))
    /\ UNCHANGED <<ledger, swapCount, domain, adminInit, feeConfigs, feeVars, rateVars, queryVars, opVars>>

\* submitAndWait of the issuing payment: the transaction reaches the ledger, or
\* autofill/sign/submit throws and submitAndWait returns success: false
IssueSubmit ==
    /\ swap.pc = "issue_submit"
    /\ \E reached \in BOOLEAN :
        IF reached
        THEN /\ Submit("issue", "admin", swap.user, Val(swap.fee).netAmount)
             /\ swap' = [swap EXCEPT !.pc = "issue_wait"]
             /\ UNCHANGED swapResult
        ELSE /\ Finish(swap, Failure(<<"Failed to issue KRW", "Transaction failed", "exception">>))
             /\ UNCHANGED ledger
    /\ UNCHANGED <<swapCount, domain, adminInit, feeConfigs, feeVars, rateVars, queryVars, opVars>>

\* the ledger validates the issuing payment and submitAndWait returns
IssueReturn ==
    /\ swap.pc = "issue_wait"
    /\ \E outcome \in LedgerOutcomes(ledger[Len(ledger)]) :
        /\ Settle(outcome)
        /\ IF outcome = TesSuccess
           THEN Finish([swap EXCEPT !.leg1 = Some([success |-> TRUE, txHash |-> Len(ledger), error |-> Null])],
                       [success |-> TRUE, error |-> Null, status |-> Null,
                        txHash |-> Some(Len(ledger)), returnTxHash |-> Null,
                        xrpTxHash |-> Null])
           ELSE Finish([swap EXCEPT !.leg1 = Some([success |-> FALSE, txHash |-> Len(ledger), error |-> Some(outcome)])],
                       Failure(<<"Failed to issue KRW", "Transaction failed", outcome>>))
    /\ UNCHANGED <<swapCount, domain, adminInit, feeConfigs, feeVars, rateVars, queryVars, opVars>>

\* requestIOUToXRPSwap up to the connection made by processIOUToXRPSwap
RequestIOUToXRPSwap ==
    /\ swap.pc = "idle" /\ swapCount < MaxSwaps
    /\ \E userSeed \in Seeds, iouAmount \in SwapAmountCases :
        LET w  == WalletFromSeed(userSeed)
            sw == [SwapIdle EXCEPT !.kind = "IOU_TO_XRP", !.amount = iouAmount,
                                   !.user = IF IsNull(w) THEN "none" ELSE Val(w)]
        IN
        /\ swapCount' = swapCount + 1
        /\ IF ~IsValidSeed(userSeed)
           THEN Finish(sw, Failure(<<"Invalid user seed">>))
           ELSE IF ~IsValidAmount(iouAmount)
           THEN Finish(sw, Failure(<<"Invalid IOU amount">>))
           ELSE IF IsNull(w)
           THEN Finish(sw, Failure(<<"fromSeed failed">>))
           ELSE IF ~adminInit
           THEN Finish(sw, Failure(<<"Admin not initialized">>))
           ELSE /\ swap' = [sw EXCEPT !.pc = "redeem_connect"]
                /\ UNCHANGED swapResult
    /\ UNCHANGED <<ledger, domain, adminInit, feeConfigs, feeVars, rateVars, queryVars, opVars>>

\* XRPLService.connectClient in processIOUToXRPSwap: it connects or throws
RedeemConnect ==
    /\ swap.pc = "redeem_connect"
    /\ \E connected \in BOOLEAN :
        IF connected
        THEN /\ swap' = [swap EXCEPT !.pc = "leg1_submit", !.clientOpen = TRUE]
             /\ UNCHANGED swapResult
        ELSE Finish(swap, Failure(<<"connect failed">>))
    /\ UNCHANGED <<ledger, swapCount, domain, adminInit, feeConfigs, feeVars, rateVars, queryVars, opVars>>

\* leg 1: submitAndWait(client, userWallet, returnPayment)
Leg1Submit ==
    /\ swap.pc = "leg1_submit"
    /\ \E reached \in BOOLEAN :
        IF reached
        THEN /\ Submit("return", swap.user, "admin", swap.amount)
             /\ swap' = [swap EXCEPT !.pc = "leg1_wait"]
             /\ UNCHANGED swapResult
        ELSE /\ Finish([swap EXCEPT !.leg1 = Some([success |-> FALSE, txHash |-> 0, error |-> Some("exception")])],
                       Failure(<<"IOU return failed", "exception">>))
             /\ UNCHANGED ledger
    /\ UNCHANGED <<swapCount, domain, adminInit, feeConfigs, feeVars, rateVars, queryVars, opVars>>

\* leg 1 returns and its result is not looked at: the fee is computed and leg 2
\* prepared whatever the outcome
Leg1ReturnUnchecked ==
    /\ swap.pc = "leg1_wait"
    /\ \E outcome \in LedgerOutcomes(ledger[Len(ledger)]) :
        /\ Settle(outcome)
        /\ \E fc \in CalculateSwapFee(feeConfigs, "KRW_TO_XRP", swap.amount, now) :
            /\ swap' = [swap EXCEPT !.pc = "leg2_submit", !.fee = Some(fc),
                          !.leg1 = Some([success |-> outcome = TesSuccess,
                                         txHash |-> Len(ledger), error |-> Null])]
            /\ UNCHANGED swapResult
    /\ UNCHANGED <<swapCount, domain, adminInit, feeConfigs, feeVars, rateVars, queryVars, opVars>>

\* leg 1 returns: on success the fee is computed and leg 2 prepared, otherwise
\* 'IOU return failed' is thrown, caught and returned
Leg1Return ==
    /\ swap.pc = "leg1_wait"
    /\ \E outcome \in LedgerOutcomes(ledger[Len(ledger)]) :
        /\ Settle(outcome)
        /\ IF outcome = TesSuccess
           THEN \E fc \in CalculateSwapFee(feeConfigs, "KRW_TO_XRP", swap.amount, now) :
                /\ swap' = [swap EXCEPT !.pc = "leg2_submit", !.fee = Some(fc),
                              !.leg1 = Some([success |-> TRUE, txHash |-> Len(ledger), error |-> Null])]
                /\ UNCHANGED swapResult
           ELSE Finish([swap EXCEPT !.leg1 = Some([success |-> FALSE, txHash |-> Len(ledger), error |-> Some(outcome)])],
                       Failure(<<"IOU return failed", outcome>>))
    /\ UNCHANGED <<swapCount, domain, adminInit, feeConfigs, feeVars, rateVars, queryVars, opVars>>

\* leg 2: submitAndWait(client, adminWallet, xrpPayment), the net amount in drops
Leg2Submit ==
    /\ swap.pc = "leg2_submit"
    /\ \E reached \in BOOLEAN :
        IF reached
        THEN /\ Submit("payout", "admin", swap.user, Val(swap.fee).netAmount)
             /\ swap' = [swap EXCEPT !.pc = "leg2_wait"]
             /\ UNCHANGED swapResult
        ELSE /\ Finish([swap EXCEPT !.leg2 = Some([success |-> FALSE, txHash |-> 0, error |-> Some("exception")])],
                       Failure(<<"XRP payment failed", "exception">>))
             /\ UNCHANGED ledger
    /\ UNCHANGED <<swapCount, domain, adminInit, feeConfigs, feeVars, rateVars, queryVars, opVars>>

\* leg 2 returns and a failed payout is submitted again
Leg2ReturnRetry ==
    /\ swap.pc = "leg2_wait"
    /\ \E outcome \in LedgerOutcomes(ledger[Len(ledger)]) :
        /\ Settle(outcome)
        /\ IF outcome = TesSuccess
           THEN Finish([swap EXCEPT !.leg2 = Some([success |-> TRUE, txHash |-> Len(ledger), error |-> Null])],
                       [success |-> TRUE, error |-> Null, status |-> Null, txHash |-> Null,
                        returnTxHash |-> Some(Val(swap.leg1).txHash),
                        xrpTxHash |-> Some(Len(ledger))])
           ELSE /\ swap' = [swap EXCEPT !.pc = "leg2_submit"]
                /\ UNCHANGED swapResult
    /\ UNCHANGED <<swapCount, domain, adminInit, feeConfigs, feeVars, rateVars, queryVars, opVars>>

\* leg 2 returns: success returns both hashes, otherwise 'XRP payment failed'
\* is thrown, caught and returned as {success: false, error}
Leg2Return ==
    /\ swap.pc = "leg2_wait"
    /\ \E outcome \in LedgerOutcomes(ledger[Len(ledger)]) :
        /\ Settle(outcome)
        /\ IF outcome = TesSuccess
           THEN Finish([swap EXCEPT !.leg2 = Some([success |-> TRUE, txHash |-> Len(ledger), error |-> Null])],
                       [success |-> TRUE, error |-> Null, status |-> Null, txHash |-> Null,
                        returnTxHash |-> Some(Val(swap.leg1).txHash),
                        xrpTxHash |-> Some(Len(ledger))])
           ELSE Finish([swap EXCEPT !.leg2 = Some([success |-> FALSE, txHash |-> Len(ledger), error |-> Some(outcome)])],
                       Failure(<<"XRP payment failed", outcome>>))
    /\ UNCHANGED <<swapCount, domain, adminInit, feeConfigs, feeVars, rateVars, queryVars, opVars>>

-----------------------------------------------------------------------------
(* Specification SpecSwap: swap requests, one at a time, against a fixed
   configuration of the stores *)

\* an active whitelist domain holding rAlice, an active blacklist domain
\* holding rBob, and no domain at all
DomainCases ==
    { Null,
      Some([domainType |-> "whitelist", status |-> "active",
            allowedAccounts |-> <<[address |-> "rAlice", kycStatus |-> "verified"]>>,
            blockedAccounts |-> <<>>,
            settings |-> [requireKYC |-> FALSE]]),
      Some([domainType |-> "blacklist", status |-> "active",
            allowedAccounts |-> <<>>,
            blockedAccounts |-> <<[address |-> "rBob"]>>,
            settings |-> [requireKYC |-> FALSE]]) }

\* 1 XRP = 4197 KRW, spread 0.001, as initializeDefaultRates creates it
DefaultRateRecord ==
    [id |-> 1, pair |-> XRPKRW, rate |-> 4197 * Scale, spread |-> 1,
     bidRate |-> Some(4192803), askRate |-> Some(4201197),
     isActive |-> TRUE, validFrom |-> 0, validTo |-> Null]

RateStoreCases == { <<>>, <<DefaultRateRecord>> }

FixedFeeConfig(id, swapType) ==
    [id |-> id, swapType |-> swapType, feeType |-> "FIXED", baseFee |-> 200 * Scale,
     minFee |-> 0, maxFee |-> Null, tieredRates |-> <<>>,
     isActive |-> TRUE, effectiveFrom |-> 0, effectiveTo |-> Null]

\* no configuration (the default fee applies), or a fixed fee of 200 per swap
FeeStoreCases ==
    { <<>>, <<FixedFeeConfig(1, "XRP_TO_KRW"), FixedFeeConfig(2, "KRW_TO_XRP")>> }

InitSwap ==
    /\ domain \in DomainCases
    /\ adminInit \in BOOLEAN
    /\ feeConfigs \in FeeStoreCases
    /\ rates \in RateStoreCases
    /\ now = 1
    /\ swap = SwapIdle /\ ledger = <<>> /\ swapResult = Null /\ swapCount = 0
    /\ rproc = <<>> /\ lastOp = <<>> /\ rateQuery = Null
    /\ feeCfg = <<>> /\ feeAmount = 0 /\ feeOut = Null
    /\ QueryIdle

NextSwap ==
    \/ RequestXRPToIOUSwap
    \/ IssueConnect
    \/ IssueSubmit
    \/ IssueReturn
    \/ RequestIOUToXRPSwap
    \/ RedeemConnect
    \/ Leg1Submit
    \/ Leg1Return
    \/ Leg2Submit
    \/ Leg2Return

SpecSwap == InitSwap /\ [][NextSwap]_vars

SwapOver == swap.pc = "idle" /\ swapCount > 0

Failed(state) == state \notin {"pending", TesSuccess}

\* leg 1 succeeded and leg 2 failed in the swap that has just returned
PartialSwap ==
    /\ SwapOver /\ swap.kind = "IOU_TO_XRP"
    /\ ~IsNull(swap.leg1) /\ Val(swap.leg1).success
    /\ ~IsNull(swap.leg2) /\ ~Val(swap.leg2).success

(* C1: a swap requested by an address for which checkPermission returns
   allowed = false submits no ledger transaction and ends FAILED. *)
C1_DeniedSwapSubmitsNothing ==
    /\ \A i \in 1 .. Len(ledger) :
          CheckTrustLinePermission(domain, adminInit, ledger[i].user).allowed
    /\ (SwapOver /\ ~CheckTrustLinePermission(domain, adminInit, swap.user).allowed)
          => ~Val(swapResult).success

(* C2: in a redemption swap leg 2 (the payout) is submitted only after leg 1
   (the IOU return) was confirmed tesSUCCESS by the ledger; when leg 1 fails
   the swap returns a failure and submits nothing else. *)
C2_Leg2OnlyAfterLeg1Success ==
    /\ \A i \in 1 .. Len(ledger) :
          ledger[i].leg = "payout" =>
              \E j \in 1 .. i - 1 : /\ ledger[j].swap = ledger[i].swap
                                    /\ ledger[j].leg = "return"
                                    /\ ledger[j].state = TesSuccess
    /\ \A j \in 1 .. Len(ledger) :
          (ledger[j].leg = "return" /\ Failed(ledger[j].state)) =>
              /\ \A k \in 1 .. Len(ledger) : k # j => ledger[k].swap # ledger[j].swap
              /\ ledger[j].swap = swapCount =>
                    (SwapOver /\ ~Val(swapResult).success)
    /\ (~IsNull(swap.leg1) /\ ~Val(swap.leg1).success) =>
          (SwapOver /\ ~Val(swapResult).success)

\* a payout was submitted after a confirmed return, and another swap's leg 1
\* failed on the ledger
C2_Witness ==
    /\ \E i \in 1 .. Len(ledger) : ledger[i].leg = "payout"
    /\ \E j \in 1 .. Len(ledger) : ledger[j].leg = "return" /\ Failed(ledger[j].state)

(* C3: when leg 1 succeeds with hash H1 and leg 2 fails, the returned result
   reports the status PARTIAL, contains H1 and contains leg 2's error code. *)
C3_PartialReported ==
    PartialSwap =>
        LET res == Val(swapResult) IN
        /\ res.status = Some("PARTIAL")
        /\ res.returnTxHash = Some(Val(swap.leg1).txHash)
        /\ \E k \in 1 .. Len(res.error) : res.error[k] = Val(Val(swap.leg2).error)

(* C4: after leg 1 succeeded and leg 2 failed the swap submits no further
   ledger transaction: the payout is not submitted again, nothing is issued
   back, and the confirmed return stays as it is. *)
C4_NoTxAfterPartial ==
    /\ \A i \in 1 .. Len(ledger) :
          (ledger[i].leg = "payout" /\ Failed(ledger[i].state)) =>
              /\ \A j \in i + 1 .. Len(ledger) : ledger[j].swap # ledger[i].swap
              /\ \E j \in 1 .. i - 1 : /\ ledger[j].swap = ledger[i].swap
                                       /\ ledger[j].leg = "return"
                                       /\ ledger[j].state = TesSuccess
              /\ ledger[i].swap = swapCount => SwapOver
    /\ PartialSwap =>
          \A i \in 1 .. Len(ledger) :
              ledger[i].swap = swapCount => ledger[i].leg \in {"return", "payout"}

C4_Witness ==
    /\ PartialSwap
    /\ Failed(ledger[Len(ledger)].state)
    /\ ledger[Len(ledger)].leg = "payout"
    /\ ledger[Len(ledger)].swap = swapCount

(* C5: a swap requested while getCurrentRate finds no current XRP/KRW record
   submits no ledger transaction and ends FAILED. *)
C5_NoRateNoSwap ==
    /\ ledger # <<>> => Null \notin GetCurrentRate(rates, XRPKRW, now)
    /\ (SwapOver /\ Null \in GetCurrentRate(rates, XRPKRW, now))
          => ~Val(swapResult).success

-----------------------------------------------------------------------------
(* Specification SpecFee: calculateFee applied to bounded inputs *)

\* amounts accepted by the callers of calculateFee (amount > 0), whole units
AmountCases == {1 * Scale, 100 * Scale, 500 * Scale}

\* 0, the default rate 0.003, and 200 (a fixed fee above some amounts)
BaseFeeCases == {0, 3, 200 * Scale}

MinFeeCases == {0, 10 * Scale}

MaxFeeCases == {Null, Some(0), Some(5 * Scale), Some(50 * Scale), Some(0 - Scale)}

TierListCases ==
    { <<>>,
      << [minAmount |-> 0, maxAmount |-> Some(100 * Scale), feeRate |-> 10],
         [minAmount |-> 100 * Scale, maxAmount |-> Null, feeRate |-> 5] >>,
      << [minAmount |-> 100 * Scale, maxAmount |-> Null, feeRate |-> 5] >> }

FeeConfigCases ==
    [feeType : FeeTypes, baseFee : BaseFeeCases, minFee : MinFeeCases,
     maxFee : MaxFeeCases, tieredRates : TierListCases]

FeeIdleRest ==
    /\ rates = <<>> /\ now = 0 /\ rproc = <<>> /\ lastOp = <<>> /\ rateQuery = Null
    /\ domain = <<>> /\ adminInit = FALSE /\ feeConfigs = <<>>
    /\ swap = SwapIdle /\ ledger = <<>> /\ swapResult = <<>> /\ swapCount = 0
    /\ QueryIdle

InitFee ==
    /\ feeCfg \in FeeConfigCases
    /\ feeAmount \in AmountCases
    /\ feeOut = Null
    /\ FeeIdleRest

\* a caller invokes config.calculateFee(amount)
CalculateFeeCall ==
    /\ feeOut = Null
    /\ feeOut' = Some(CalculateFee(feeCfg, feeAmount))
    /\ UNCHANGED <<feeCfg, feeAmount, rateVars, swapVars, queryVars, opVars>>

NextFee == CalculateFeeCall

SpecFee == InitFee /\ [][NextFee]_vars

-----------------------------------------------------------------------------
(* C9: for every fee configuration and amount, calculateFee returns
   grossAmount = amount and fee + netAmount = grossAmount; netAmount is
   amount - fee as is, negative when the fee exceeds the amount. *)
C9_FeePlusNetIsGross ==
    ~IsNull(feeOut) =>
        LET r == Val(feeOut) IN
        /\ r.grossAmount = feeAmount
        /\ r.fee + r.netAmount = r.grossAmount
        /\ (r.fee > feeAmount => r.netAmount < 0)

C9_Witness ==
    /\ ~IsNull(feeOut)
    /\ Val(feeOut).netAmount < 0
    /\ Val(feeOut).fee + Val(feeOut).netAmount = feeAmount

(* C10 as stated: the fee is min(max(rawFee, minFee), maxFee) whenever maxFee
   is any non-null value, 0 included, and max(rawFee, minFee) when maxFee is
   null. *)
C10_ClampAnyNonNullMax ==
    ~IsNull(feeOut) =>
        LET raw == RawFee(feeCfg, feeAmount)
            lo  == MaxOf(raw, feeCfg.minFee)
        IN  Val(feeOut).fee =
                IF IsNull(feeCfg.maxFee) THEN lo
                ELSE MinOf(lo, Val(feeCfg.maxFee))

(* C10 amended: the fee is min(max(rawFee, minFee), maxFee) whenever maxFee
   is a non-null, non-zero value, and max(rawFee, minFee) when maxFee is null
   or 0 (a maxFee of 0 is treated as not set); the minimum is applied first,
   so with maxFee < minFee the result is maxFee. *)
C10_ClampNonZeroMax ==
    ~IsNull(feeOut) =>
        LET raw == RawFee(feeCfg, feeAmount)
            lo  == MaxOf(raw, feeCfg.minFee)
        IN  Val(feeOut).fee =
                IF IsNull(feeCfg.maxFee) \/ Val(feeCfg.maxFee) = 0 THEN lo
                ELSE MinOf(lo, Val(feeCfg.maxFee))

\* baseFee 0.003, minFee 10, maxFee 5, amount 100 gives 5
C10_Witness ==
    /\ ~IsNull(feeOut)
    /\ feeCfg.feeType = "PERCENTAGE" /\ feeCfg.baseFee = 3
    /\ feeCfg.minFee = 10 * Scale /\ feeCfg.maxFee = Some(5 * Scale)
    /\ feeAmount = 100 * Scale
    /\ Val(feeOut).fee = 5 * Scale


\* the tiers of the configuration, by position, that contain the amount
MatchingTiers(cfg, amount) ==
    {i \in 1 .. Len(cfg.tieredRates) : TierContains(cfg.tieredRates[i], amount)}

\* amount * feeRate of the matching tier of least position, 0 without one
FirstTierFee(cfg, amount) ==
    LET M == MatchingTiers(cfg, amount)
    IN  IF M = {} THEN 0
        ELSE FMul(amount, cfg.tieredRates[CHOOSE i \in M : \A j \in M : i <= j].feeRate)

(* C11: for a TIERED configuration the raw fee is amount * feeRate of the
   first tier in list order that contains the amount, later matching tiers
   are not used, and it is 0 when no tier matches; the fee returned is the
   clamp of that raw fee. *)
C11_FirstMatchingTier ==
    (~IsNull(feeOut) /\ feeCfg.feeType = "TIERED")
    => /\ RawFee(feeCfg, feeAmount) = FirstTierFee(feeCfg, feeAmount)
       /\ Val(feeOut).fee = ClampFee(feeCfg, FirstTierFee(feeCfg, feeAmount))

\* the amount is the maxAmount of one tier and the minAmount of the next,
\* the two tiers have different rates, and no clamp applies
C11_Witness ==
    /\ ~IsNull(feeOut)
    /\ feeCfg.feeType = "TIERED"
    /\ feeCfg.minFee = 0 /\ IsNull(feeCfg.maxFee)
    /\ Cardinality(MatchingTiers(feeCfg, feeAmount)) = 2
    /\ feeCfg.tieredRates[1].feeRate # feeCfg.tieredRates[2].feeRate
    /\ Val(feeOut).fee = FMul(feeAmount, feeCfg.tieredRates[1].feeRate)

-----------------------------------------------------------------------------
(* Rate Registry: the operations that set the rate of a pair *)

MaxRates == 2

MaxTime == 2

Procs == {1, 2}

Pairs == {XRPKRW, "BTC/KRW"}

\* source: enum ['MANUAL', 'API', 'EXCHANGE', 'SYSTEM']
SourceEnum == {"MANUAL", "API", "EXCHANGE", "SYSTEM"}

\* spread: default 0.001
DefaultSpread == 1

SetRateOps == {"updateXRPKRWRate", "batchUpdateRates", "saveExchangeRate", "postRates"}

\* a valid rate, a negative rate
RateInputCases == {4197 * Scale, 0 - Scale}

\* the spread is left out of the request
SpreadInputCases == {Null}

\* validFrom of a request: left out, or a date at the end of the run
ValidFromInputCases == {Null, Some(MaxTime)}

\* validTo of a request: left out, or a date at the start of the run
ValidToInputCases == {Null, Some(0)}

\* updateMany that matches nothing and modifies nothing
UpdateManyNone(store, pair, setValidTo) == store

\* updateMany({pair, isActive: true}, {isActive: false [, validTo]})
UpdateMany(store, pair, setValidTo) ==
    [i \in 1 .. Len(store) |->
        IF store[i].pair = pair /\ store[i].isActive
        THEN [store[i] EXCEPT !.isActive = FALSE,
                              !.validTo = IF IsNull(setValidTo) THEN @ ELSE setValidTo]
        ELSE store[i]]

\* new ExchangeRate({...}): isActive defaults to true, bid/ask are not set
NewExchangeRate(id, pair, rate, spread, validFrom, validTo) ==
    [id |-> id, pair |-> pair, rate |-> rate, spread |-> spread,
     bidRate |-> Null, askRate |-> Null,
     isActive |-> TRUE, validFrom |-> validFrom, validTo |-> validTo]

\* schema validation on save: rate min 0, spread min 0, source in the enum
ValidateRate(doc, source) ==
    /\ doc.rate >= 0
    /\ doc.spread >= 0
    /\ source \in SourceEnum

\* pre('save'): bid and ask are computed when the rate is truthy
PreSave(doc) ==
    IF doc.rate # 0
    THEN [doc EXCEPT !.bidRate = Some(doc.rate - FMul(doc.rate, doc.spread)),
                     !.askRate = Some(doc.rate + FMul(doc.rate, doc.spread))]
    ELSE doc

RateProcIdle ==
    [pc |-> "idle", op |-> "none", pair |-> XRPKRW, rate |-> 0, spread |-> 0,
     source |-> "MANUAL", validFrom |-> Null, validTo |-> Null]

\* what a setRate operation returned: the inserted record and the time of
\* its construction, or a failure
OpResult(op, id, pair, at) ==
    [op |-> op, ok |-> TRUE, id |-> id, pair |-> pair, at |-> at]

OpFailed(op, pair) ==
    [op |-> op, ok |-> FALSE, id |-> 0, pair |-> pair, at |-> 0]

Saving(p) == rproc[p].pc = "save"

\* first step of a setRate operation: the await on updateMany
BeginSetRate(p, op, pair, rate, spread, source, validFrom, validTo, setValidTo) ==
    /\ Len(rates) + Cardinality({q \in Procs : Saving(q)}) < MaxRates
    /\ rates' = UpdateMany(rates, pair, setValidTo)
    /\ rproc' = [rproc EXCEPT ![p] =
                    [pc |-> "save", op |-> op, pair |-> pair, rate |-> rate,
                     spread |-> spread, source |-> source,
                     validFrom |-> validFrom, validTo |-> validTo]]
    /\ rateQuery' = Null
    /\ UNCHANGED <<now, lastOp, feeVars, swapVars, queryVars, opVars>>

\* second step: construct the document (validFrom defaults to the time of
\* construction) and save it; a validation error leaves the store as the
\* first step left it
SaveNewRate(p) ==
    /\ LET r == rproc[p]
           op == r.op
           doc == NewExchangeRate(Len(rates) + 1, r.pair, r.rate, r.spread,
                                  IF IsNull(r.validFrom) THEN now ELSE Val(r.validFrom),
                                  r.validTo)
       IN  IF ValidateRate(doc, r.source)
           THEN /\ rates' = Append(rates, PreSave(doc))
                /\ lastOp' = [lastOp EXCEPT ![p] = Some(OpResult(op, doc.id, r.pair, now))]
           ELSE /\ rates' = rates
                /\ lastOp' = [lastOp EXCEPT ![p] = Some(OpFailed(op, r.pair))]
    /\ rproc' = [rproc EXCEPT ![p] = RateProcIdle]
    /\ rateQuery' = Null
    /\ UNCHANGED <<now, feeVars, swapVars, queryVars, opVars>>

\* AdminExchangeRateService.updateXRPKRWRate(newRate, spread = 0.001)
UpdateXRPKRWRate_UpdateMany(p) ==
    \E newRate \in RateInputCases, spread \in SpreadInputCases :
        /\ rproc[p].pc = "idle"
        /\ BeginSetRate(p, "updateXRPKRWRate", XRPKRW, newRate,
                        IF IsNull(spread) THEN DefaultSpread ELSE Val(spread),
                        "MANUAL", Null, Null, Null)

UpdateXRPKRWRate_Save(p) ==
    /\ Saving(p)
    /\ rproc[p].op = "updateXRPKRWRate"
    /\ SaveNewRate(p)

\* one item of AdminExchangeRateService.batchUpdateRates: spread || 0.001,
\* source || 'BATCH_UPDATE'
BatchUpdateRates_UpdateMany(p) ==
    \E pair \in Pairs, rate \in RateInputCases, spread \in SpreadInputCases,
       source \in {Null, Some("API")} :
        /\ rproc[p].pc = "idle"
        /\ BeginSetRate(p, "batchUpdateRates", pair, rate,
                        IF Truthy(spread) THEN Val(spread) ELSE DefaultSpread,
                        IF IsNull(source) THEN "BATCH_UPDATE" ELSE Val(source),
                        Null, Null, Null)

BatchUpdateRates_Save(p) ==
    /\ Saving(p)
    /\ rproc[p].op = "batchUpdateRates"
    /\ SaveNewRate(p)

\* tasks/swapRate.js saveExchangeRate("XRP", price): the deactivated records
\* also get validTo = now; the spread is the schema default
SaveExchangeRate_UpdateMany(p) ==
    \E price \in RateInputCases :
        /\ rproc[p].pc = "idle"
        /\ BeginSetRate(p, "saveExchangeRate", XRPKRW, price, DefaultSpread,
                        "API", Null, Null, Some(now))

SaveExchangeRate_Save(p) ==
    /\ Saving(p)
    /\ rproc[p].op = "saveExchangeRate"
    /\ SaveNewRate(p)

\* POST /rates: 400 when the rate is missing, zero or negative; otherwise
\* deactivate, then insert with the validFrom and validTo of the request
PostRates_UpdateMany(p) ==
    \E pair \in Pairs, rate \in RateInputCases, spread \in SpreadInputCases,
       validFrom \in ValidFromInputCases, validTo \in ValidToInputCases :
        /\ rproc[p].pc = "idle"
        /\ IF rate = 0 \/ rate <= 0
           THEN
             /\ lastOp' = [lastOp EXCEPT ![p] = Some(OpFailed("postRates", pair))]
             /\ rateQuery' = Null
             /\ UNCHANGED <<rates, now, rproc, feeVars, swapVars, queryVars, opVars>>
           ELSE BeginSetRate(p, "postRates", pair, rate,
                             IF Truthy(spread) THEN Val(spread) ELSE DefaultSpread,
                             "MANUAL", validFrom, validTo, Null)

PostRates_Save(p) ==
    /\ Saving(p)
    /\ rproc[p].op = "postRates"
    /\ SaveNewRate(p)

\* PUT /rates/:id with a body that holds isActive only: findById, assign,
\* save (the pre-save hook recomputes bid and ask)
PutRates(p) ==
    \E i \in 1 .. Len(rates), isActive \in BOOLEAN :
        /\ rproc[p].pc = "idle"
        /\ rates' = [rates EXCEPT ![i] = PreSave([@ EXCEPT !.isActive = isActive])]
        /\ lastOp' = [lastOp EXCEPT ![p] = Null]
        /\ rateQuery' = Null
        /\ UNCHANGED <<now, rproc, feeVars, swapVars, queryVars, opVars>>

\* POST /rates/:id/deactivate
DeactivateRate(p) ==
    \E i \in 1 .. Len(rates) :
        /\ rproc[p].pc = "idle"
        /\ rates' = [rates EXCEPT ![i] = PreSave([@ EXCEPT !.isActive = FALSE])]
        /\ lastOp' = [lastOp EXCEPT ![p] = Null]
        /\ rateQuery' = Null
        /\ UNCHANGED <<now, rproc, feeVars, swapVars, queryVars, opVars>>

\* the clock advances
Tick ==
    /\ now < MaxTime
    /\ now' = now + 1
    /\ rateQuery' = Null
    /\ ClearQueries
    /\ UNCHANGED <<rates, rproc, lastOp, feeVars, swapVars, opVars>>

\* a caller reads ExchangeRate.getCurrentRate(base, quote)
GetCurrentRateCall ==
    \E pair \in Pairs :
        \E res \in GetCurrentRate(rates, pair, now) :
            /\ rateQuery' = Some([pair |-> pair, result |-> res])
            /\ UNCHANGED <<rates, now, rproc, lastOp, feeVars, swapVars, queryVars, opVars>>

\* the other components stay as constructed
RateIdleRest ==
    /\ feeCfg = <<>> /\ feeAmount = 0 /\ feeOut = Null
    /\ QueryIdle
    /\ domain = Null /\ adminInit = FALSE /\ feeConfigs = <<>>
    /\ swap = SwapIdle /\ ledger = <<>> /\ swapResult = Null /\ swapCount = 0

\* the collection is empty at start-up (the default rates are not seeded)
InitRate ==
    /\ rates = <<>>
    /\ now = 0
    /\ rproc = [p \in Procs |-> RateProcIdle]
    /\ lastOp = [p \in Procs |-> Null]
    /\ rateQuery = Null
    /\ RateIdleRest

\* one caller at a time: operations do not overlap
NextRateSeq ==
    \/ UpdateXRPKRWRate_UpdateMany(1)
    \/ UpdateXRPKRWRate_Save(1)
    \/ BatchUpdateRates_UpdateMany(1)
    \/ BatchUpdateRates_Save(1)
    \/ SaveExchangeRate_UpdateMany(1)
    \/ SaveExchangeRate_Save(1)
    \/ PostRates_UpdateMany(1)
    \/ PostRates_Save(1)
    \/ PutRates(1)
    \/ DeactivateRate(1)
    \/ Tick

SpecRateSeq == InitRate /\ [][NextRateSeq]_vars

\* the admin routes build the collection, and callers read the current rate
NextRateQuery ==
    \/ PostRates_UpdateMany(1)
    \/ PostRates_Save(1)
    \/ PutRates(1)
    \/ Tick
    \/ GetCurrentRateCall

SpecRateQuery == InitRate /\ [][NextRateQuery]_vars

\* two callers, the admin service and the scheduled task, whose operations
\* on XRP/KRW interleave at their awaits
NextRateConc ==
    \/ \E p \in Procs : UpdateXRPKRWRate_UpdateMany(p)
    \/ \E p \in Procs : UpdateXRPKRWRate_Save(p)
    \/ \E p \in Procs : SaveExchangeRate_UpdateMany(p)
    \/ \E p \in Procs : SaveExchangeRate_Save(p)
    \/ Tick
    \/ GetCurrentRateCall

SpecRateConc == InitRate /\ [][NextRateConc]_vars

-----------------------------------------------------------------------------
(* Rate Registry: properties *)

ActiveIds(store, pair) ==
    {store[i].id : i \in {j \in 1 .. Len(store) : store[j].pair = pair /\ store[j].isActive}}

\* process p is between operations and its last operation was a setRate
\* that inserted a record
SetRateDone(p) ==
    /\ rproc[p].pc = "idle"
    /\ ~IsNull(lastOp[p])
    /\ Val(lastOp[p]).ok
    /\ Val(lastOp[p]).op \in SetRateOps

\* the record the last operation of p inserted
Inserted(p) == rates[Val(lastOp[p]).id]

\* it was inserted with validFrom = the time of the operation
InsertedFromNow(p) == Inserted(p).validFrom = Val(lastOp[p]).at

\* the inserted record is the one active record of its pair, and the one
\* current record
InsertedIsTheCurrent(p) ==
    /\ ActiveIds(rates, Inserted(p).pair) = {Inserted(p).id}
    /\ CurrentRateIds(rates, Inserted(p).pair, now) = {Inserted(p).id}

(* C6, as stated: after non-overlapping, successfully completed setRate
   operations (the rate-creation route with validFrom = now), exactly one
   record of the pair is active and current, and it is the record the last
   operation inserted. *)
C6_OneCurrentAfterSetRate ==
    (SetRateDone(1) /\ InsertedFromNow(1)) => InsertedIsTheCurrent(1)

(* C6, amended: the same, for as long as the validTo of the inserted record
   is null or has not passed (the rate-creation route stores the validTo of
   the request). *)
C6_OneCurrentWhileValid ==
    (/\ SetRateDone(1)
     /\ InsertedFromNow(1)
     /\ (IsNull(Inserted(1).validTo) \/ Val(Inserted(1).validTo) >= now))
    => InsertedIsTheCurrent(1)

\* a second operation has replaced the record of the first one
C6_Witness ==
    /\ SetRateDone(1)
    /\ InsertedFromNow(1)
    /\ Inserted(1).id = 2
    /\ rates[1].pair = rates[2].pair
    /\ ~rates[1].isActive
    /\ CurrentRateIds(rates, rates[2].pair, now) = {2}

(* C7: once two interleaved setRate operations on XRP/KRW have both
   completed successfully, exactly one record of the pair is active and
   current. *)
C7_OneCurrentAfterInterleaving ==
    (\A p \in Procs : SetRateDone(p) /\ Val(lastOp[p]).pair = XRPKRW)
    => /\ Cardinality(ActiveIds(rates, XRPKRW)) = 1
       /\ Cardinality(CurrentRateIds(rates, XRPKRW, now)) = 1

(* C8: getCurrentRate returns none when no record of the pair satisfies the
   current-rate predicate, and otherwise a record of the pair that satisfies
   it and whose validFrom is the greatest among those that do. *)
C8_GetCurrentRateLatest ==
    ~IsNull(rateQuery) =>
        LET q == Val(rateQuery)
            ids == CurrentRateIds(rates, q.pair, now)
        IN  IF ids = {} THEN IsNull(q.result)
            ELSE /\ ~IsNull(q.result)
                 /\ Val(q.result).id \in ids
                 /\ \A i \in ids : rates[i].validFrom <= Val(q.result).validFrom

\* two active overlapping records with different validFrom, and a result
C8_Witness ==
    /\ ~IsNull(rateQuery)
    /\ ~IsNull(Val(rateQuery).result)
    /\ \E i, j \in CurrentRateIds(rates, Val(rateQuery).pair, now) :
            rates[i].validFrom < rates[j].validFrom

-----------------------------------------------------------------------------
(* Fee Policy Store: the admin routes that write SwapFeeConfig, and
   AdminIOUService.calculateSwapFee *)

MaxConfigs == 2

\* effectiveFrom of a request: left out, or a date at the end of the run
EffectiveFromInputCases == {Null, Some(MaxTime)}

\* effectiveTo of a request: left out, or a date at the start of the run
EffectiveToInputCases == {Null, Some(0)}

\* the swap types the admin configures; KRW_TO_XRP is left to the default
ConfigTypeInputCases == {"XRP_TO_KRW", "IOU_TRANSFER"}

\* the amounts of a fee lookup
FeeQueryAmounts == {100 * Scale, 500 * Scale}

\* POST /configs with a FIXED fee of 200: the configuration is inserted as
\* it is, and no other configuration of the swap type is deactivated
PostConfigs ==
    \E swapType \in ConfigTypeInputCases, effectiveFrom \in EffectiveFromInputCases,
       effectiveTo \in EffectiveToInputCases :
        /\ Len(feeConfigs) < MaxConfigs
        /\ feeConfigs' = Append(feeConfigs,
               [FixedFeeConfig(Len(feeConfigs) + 1, swapType) EXCEPT
                   !.effectiveFrom = IF IsNull(effectiveFrom) THEN now
                                     ELSE Val(effectiveFrom),
                   !.effectiveTo = effectiveTo])
        /\ feeQuery' = Null
        /\ UNCHANGED <<domain, adminInit, swap, ledger, swapResult, swapCount,
                       feeVars, rateVars, permQuery, opVars>>

\* POST /configs/:id/deactivate
DeactivateConfig ==
    \E i \in 1 .. Len(feeConfigs) :
        /\ feeConfigs[i].isActive
        /\ feeConfigs' = [feeConfigs EXCEPT ![i].isActive = FALSE]
        /\ feeQuery' = Null
        /\ UNCHANGED <<domain, adminInit, swap, ledger, swapResult, swapCount,
                       feeVars, rateVars, permQuery, opVars>>

\* a caller reads adminIOUService.calculateSwapFee(swapType, swapAmount)
CalculateSwapFeeCall ==
    \E swapType \in SwapTypes, amount \in FeeQueryAmounts :
        \E res \in CalculateSwapFee(feeConfigs, swapType, amount, now) :
            /\ feeQuery' = Some([swapType |-> swapType, amount |-> amount,
                                 result |-> res])
            /\ UNCHANGED <<feeVars, rateVars, swapVars, permQuery, opVars>>

\* the collection is empty at start-up (the default fees are not seeded)
InitFeeStore ==
    /\ feeConfigs = <<>>
    /\ now = 0
    /\ rates = <<>> /\ rproc = <<>> /\ lastOp = <<>> /\ rateQuery = Null
    /\ feeCfg = <<>> /\ feeAmount = 0 /\ feeOut = Null
    /\ domain = Null /\ adminInit = FALSE
    /\ swap = SwapIdle /\ ledger = <<>> /\ swapResult = Null /\ swapCount = 0
    /\ QueryIdle

NextFeeStore ==
    \/ PostConfigs
    \/ DeactivateConfig
    \/ Tick
    \/ CalculateSwapFeeCall

SpecFeeStore == InitFeeStore /\ [][NextFeeStore]_vars

\* the last call found no configuration that satisfies the current
\* predicate for its swap type
NoCurrentFeeConfig ==
    /\ ~IsNull(feeQuery)
    /\ CurrentFeeConfigIds(feeConfigs, Val(feeQuery).swapType, now) = {}

(* C12: when no fee configuration satisfies the current predicate for the
   requested swap type, calculateSwapFee returns the fee amount * 0.003 with
   feeType PERCENTAGE, whatever the swap type. *)
C12_DefaultFeeFallback ==
    NoCurrentFeeConfig =>
        LET q == Val(feeQuery) IN
        /\ q.result.fee = (q.amount \div Scale) * 3
        /\ q.result.grossAmount = q.amount
        /\ q.result.netAmount = q.amount - q.result.fee
        /\ q.result.feeType = "PERCENTAGE"
        /\ q.result.feeRate = Some(3)

\* the store holds configurations, none of them current for the swap type of
\* the call, and the call returned the default fee of 0.3 on 100
C12_Witness ==
    /\ NoCurrentFeeConfig
    /\ Len(feeConfigs) = MaxConfigs
    /\ \E i \in 1 .. Len(feeConfigs) : feeConfigs[i].swapType = Val(feeQuery).swapType
    /\ Val(feeQuery).amount = 100 * Scale
    /\ Val(feeQuery).result.fee = 300

-----------------------------------------------------------------------------
(* Access Gate: the PermissionedDomain list methods and the
   AdminDomainService operations that call them *)

DomainTypes == {"whitelist", "blacklist", "kyc_required"}

KYCStatuses == {"pending", "verified", "rejected"}

\* the addresses of a request: two valid ones and a malformed one
AddressInputCases == ValidAddresses \cup {"notAnAddress"}

\* two valid e-mail addresses and a malformed one
EmailInputCases == {"a@x.io", "b@x.io", "malformed"}

IsValidEmail(email) == email \in {"a@x.io", "b@x.io"}

ReasonInputCases == {"fraud", "sanction"}

\* the KYC statuses of a request: the valid ones and an unknown one
StatusInputCases == KYCStatuses \cup {"unknown"}

IsValidKYCStatus(status) == status \in KYCStatuses

\* list.findIndex(acc => acc.address === accountAddress), 0 for -1
FindIndex(list, a) ==
    IF InList(list, a)
    THEN CHOOSE i \in 1 .. Len(list) :
            /\ list[i].address = a
            /\ \A j \in 1 .. i - 1 : list[j].address # a
    ELSE 0

\* permissionedDomainSchema.methods.addToWhitelist
DomainAddToWhitelist(d, a, email, approvedBy, t) ==
    LET i == FindIndex(d.allowedAccounts, a) IN
    IF i > 0
    THEN [d EXCEPT !.allowedAccounts[i].email = email,
                   !.allowedAccounts[i].approvedAt = t,
                   !.allowedAccounts[i].approvedBy = approvedBy]
    ELSE [d EXCEPT !.allowedAccounts = Append(@,
            [address |-> a, email |-> email,
             kycStatus |-> IF d.settings.requireKYC THEN "pending" ELSE "verified",
             approvedAt |-> t, approvedBy |-> approvedBy])]

\* permissionedDomainSchema.methods.addToBlacklist: an address already in
\* the list is left as it is
DomainAddToBlacklist(d, a, reason, blockedBy, t) ==
    IF FindIndex(d.blockedAccounts, a) > 0 THEN d
    ELSE [d EXCEPT !.blockedAccounts = Append(@,
            [address |-> a, reason |-> reason, blockedAt |-> t,
             blockedBy |-> blockedBy])]

\* an updateKYCStatus that writes the status to every entry
DomainUpdateKYCStatusAll(d, a, status, t) ==
    [d EXCEPT !.allowedAccounts =
        [i \in 1 .. Len(@) |->
            [@[i] EXCEPT !.kycStatus = status,
                         !.approvedAt = IF status = "verified" THEN t ELSE @]]]

\* permissionedDomainSchema.methods.updateKYCStatus
DomainUpdateKYCStatus(d, a, status, t) ==
    LET i == FindIndex(d.allowedAccounts, a) IN
    IF i > 0
    THEN [d EXCEPT !.allowedAccounts[i].kycStatus = status,
                   !.allowedAccounts[i].approvedAt =
                        IF status = "verified" THEN t ELSE @]
    ELSE d

\* what a service operation returned
DomResult(op, a, arg, ok, error) ==
    [op |-> op, address |-> a, arg |-> arg, success |-> ok, error |-> error,
     at |-> now]

\* the operation returns without a change of the domain
DomainRejected(op, a, arg, error) ==
    /\ domOp' = Some(DomResult(op, a, arg, FALSE, error))
    /\ permQuery' = Null
    /\ UNCHANGED <<domain, adminInit, feeConfigs, swap, ledger, swapResult,
                   swapCount, feeVars, rateVars, feeQuery, dproc, lines, issued>>

\* the operation saves the changed domain
DomainSaved(op, a, arg, d) ==
    /\ domain' = Some(d)
    /\ domOp' = Some(DomResult(op, a, arg, TRUE, "none"))
    /\ permQuery' = Null
    /\ UNCHANGED <<adminInit, feeConfigs, swap, ledger, swapResult, swapCount,
                   feeVars, rateVars, feeQuery, dproc, lines, issued>>

\* AdminDomainService.addToWhitelist(userAddress, email, approvedBy)
AddToWhitelist(a, email, approvedBy) ==
    IF ~IsValidXRPAddress(a)
    THEN DomainRejected("addToWhitelist", a, email, "Invalid user address")
    ELSE IF ~IsValidEmail(email)
    THEN DomainRejected("addToWhitelist", a, email, "Invalid email address")
    ELSE IF IsNull(ActiveDomain(domain))
            \/ Val(domain).domainType \notin {"whitelist", "kyc_required"}
    THEN DomainRejected("addToWhitelist", a, email, "Active whitelist domain not found")
    ELSE DomainSaved("addToWhitelist", a, email,
                     DomainAddToWhitelist(Val(domain), a, email, approvedBy, now))

\* AdminDomainService.addToBlacklist(userAddress, reason, blockedBy)
AddToBlacklist(a, reason, blockedBy) ==
    IF ~IsValidXRPAddress(a)
    THEN DomainRejected("addToBlacklist", a, reason, "Invalid user address")
    ELSE IF IsNull(ActiveDomain(domain))
    THEN DomainRejected("addToBlacklist", a, reason, "Active domain not found")
    ELSE DomainSaved("addToBlacklist", a, reason,
                     DomainAddToBlacklist(Val(domain), a, reason, blockedBy, now))

\* AdminDomainService.updateKYCStatus(userAddress, status)
UpdateKYCStatus(a, status) ==
    IF ~IsValidXRPAddress(a)
    THEN DomainRejected("updateKYCStatus", a, status, "Invalid user address")
    ELSE IF ~IsValidKYCStatus(status)
    THEN DomainRejected("updateKYCStatus", a, status, "Invalid KYC status")
    ELSE IF IsNull(ActiveDomain(domain)) \/ ~InList(Val(domain).allowedAccounts, a)
    THEN DomainRejected("updateKYCStatus", a, status, "User not found in any domain")
    ELSE DomainSaved("updateKYCStatus", a, status,
                     DomainUpdateKYCStatus(Val(domain), a, status, now))

\* AdminDomainService.updateDomainSettings({requireKYC})
UpdateDomainSettings(requireKYC) ==
    IF ~adminInit
    THEN DomainRejected("updateDomainSettings", "none", "none", "Admin not initialized")
    ELSE IF IsNull(ActiveDomain(domain))
    THEN DomainRejected("updateDomainSettings", "none", "none", "Domain not found")
    ELSE DomainSaved("updateDomainSettings", "none", "none",
                     [Val(domain) EXCEPT !.settings.requireKYC = requireKYC])

\* a caller reads adminDomainService.checkTrustLinePermission(userAddress)
CheckTrustLinePermissionCall(a) ==
    /\ permQuery' = Some([address |-> a,
                          result |-> CheckTrustLinePermission(domain, adminInit, a)])
    /\ UNCHANGED <<feeVars, rateVars, swapVars, feeQuery, opVars>>

\* a domain as it is created, of any type and status, with empty lists
NewDomain(domainType, status, requireKYC) ==
    [domainType |-> domainType, status |-> status,
     allowedAccounts |-> <<>>, blockedAccounts |-> <<>>,
     settings |-> [requireKYC |-> requireKYC]]

DomainInitCases ==
    {Null} \cup {Some(NewDomain(ty, st, kyc)) :
                    ty \in DomainTypes, st \in {"active", "inactive"}, kyc \in BOOLEAN}

InitGate ==
    /\ domain \in DomainInitCases
    /\ adminInit \in BOOLEAN
    /\ now = 0
    /\ rates = <<>> /\ rproc = <<>> /\ lastOp = <<>> /\ rateQuery = Null
    /\ feeCfg = <<>> /\ feeAmount = 0 /\ feeOut = Null
    /\ feeConfigs = <<>>
    /\ swap = SwapIdle /\ ledger = <<>> /\ swapResult = Null /\ swapCount = 0
    /\ QueryIdle

\* the admin routes, each with one e-mail address and one reason
NextGate ==
    \/ \E a \in AddressInputCases : AddToWhitelist(a, "a@x.io", "admin")
    \/ \E a \in AddressInputCases : AddToBlacklist(a, "fraud", "admin")
    \/ \E a \in AddressInputCases, status \in StatusInputCases : UpdateKYCStatus(a, status)
    \/ \E requireKYC \in BOOLEAN : UpdateDomainSettings(requireKYC)
    \/ \E a \in AddressInputCases : CheckTrustLinePermissionCall(a)

SpecGate == InitGate /\ [][NextGate]_vars

-----------------------------------------------------------------------------
(* Access Gate: properties *)

\* no domain record with status active exists
NoActiveDomain == IsNull(domain) \/ Val(domain).status # "active"

\* the entries of a list, by position, that hold the address
EntriesOf(list, a) == {i \in 1 .. Len(list) : list[i].address = a}

(* C13, as stated: in every state in which no domain record with status
   active exists, checkTrustLinePermission returns allowed = true for every
   address, whatever else the system state is. *)
C13_FailOpenAlways ==
    (~IsNull(permQuery) /\ NoActiveDomain) => Val(permQuery).result.allowed

(* C13, amended: the same for every valid XRP address while the admin wallet
   is initialised (a malformed address and an uninitialised admin wallet are
   refused before the domain is looked up). *)
C13_FailOpenValidAddress ==
    (/\ ~IsNull(permQuery)
     /\ NoActiveDomain
     /\ adminInit
     /\ IsValidXRPAddress(Val(permQuery).address))
    => /\ Val(permQuery).result.allowed
       /\ Val(permQuery).result.reason = "No domain restrictions"

\* an inactive whitelist domain that does not hold the address, and the
\* address is allowed
C13_Witness ==
    /\ ~IsNull(permQuery)
    /\ adminInit
    /\ ~IsNull(domain)
    /\ Val(domain).status = "inactive"
    /\ Val(domain).domainType = "whitelist"
    /\ ~InList(Val(domain).allowedAccounts, Val(permQuery).address)
    /\ IsValidXRPAddress(Val(permQuery).address)
    /\ Val(permQuery).result.allowed

\* the permission of a valid address was read from the active domain
GateAnswered ==
    /\ ~IsNull(permQuery)
    /\ adminInit
    /\ IsValidXRPAddress(Val(permQuery).address)
    /\ ~NoActiveDomain

(* C14: for the active domain, after any sequence of addToWhitelist,
   addToBlacklist, updateKYCStatus and updateDomainSettings: in a whitelist
   domain an address is allowed exactly when it has a whitelist entry and
   (requireKYC is false or the entry's kycStatus is verified); in a
   blacklist domain exactly when it has no blacklist entry. *)
C14_ListSemantics ==
    GateAnswered =>
        LET d == Val(domain)
            a == Val(permQuery).address
            allowed == Val(permQuery).result.allowed
            w == EntriesOf(d.allowedAccounts, a)
            b == EntriesOf(d.blockedAccounts, a)
        IN  /\ d.domainType = "whitelist" =>
                (allowed <=> /\ w # {}
                             /\ (~d.settings.requireKYC
                                 \/ \A i \in w : d.allowedAccounts[i].kycStatus = "verified"))
            /\ d.domainType = "blacklist" => (allowed <=> b = {})

\* a whitelist domain that requires KYC refuses a whitelisted address whose
\* KYC is pending, after the list and the settings were written
C14_Witness ==
    /\ GateAnswered
    /\ ~IsNull(domOp)
    /\ Val(domain).domainType = "whitelist"
    /\ Val(domain).settings.requireKYC
    /\ \E i \in EntriesOf(Val(domain).allowedAccounts, Val(permQuery).address) :
            Val(domain).allowedAccounts[i].kycStatus = "pending"
    /\ ~Val(permQuery).result.allowed

(* C15: when the active domain has domainType kyc_required, an address is
   allowed only if it has an entry whose kycStatus is verified. *)
C15_KYCRequiredNeedsVerified ==
    (GateAnswered /\ Val(domain).domainType = "kyc_required"
        /\ Val(permQuery).result.allowed)
    => \E i \in EntriesOf(Val(domain).allowedAccounts, Val(permQuery).address) :
            Val(domain).allowedAccounts[i].kycStatus = "verified"

-----------------------------------------------------------------------------
(* Access Gate: the list operations with changing metadata *)

\* the admin adds addresses to the lists of an active whitelist domain, with
\* any e-mail address and any reason, while time passes
InitLists ==
    /\ domain \in {Some(NewDomain("whitelist", "active", kyc)) : kyc \in BOOLEAN}
    /\ adminInit = TRUE
    /\ now = 0
    /\ rates = <<>> /\ rproc = <<>> /\ lastOp = <<>> /\ rateQuery = Null
    /\ feeCfg = <<>> /\ feeAmount = 0 /\ feeOut = Null
    /\ feeConfigs = <<>>
    /\ swap = SwapIdle /\ ledger = <<>> /\ swapResult = Null /\ swapCount = 0
    /\ QueryIdle

NextLists ==
    \/ \E a \in AddressInputCases, email \in EmailInputCases :
            AddToWhitelist(a, email, "admin")
    \/ \E a \in AddressInputCases, reason \in ReasonInputCases :
            AddToBlacklist(a, reason, "admin")
    \/ Tick

SpecLists == InitLists /\ [][NextLists]_vars

\* the last operation was op and it succeeded
ListOpDone(op) ==
    /\ ~IsNull(domOp)
    /\ Val(domOp).op = op
    /\ Val(domOp).success

\* every address has at most one entry in each list
OneEntryPerAddress ==
    ~IsNull(domain) =>
        \A a \in AddressInputCases :
            /\ Cardinality(EntriesOf(Val(domain).allowedAccounts, a)) <= 1
            /\ Cardinality(EntriesOf(Val(domain).blockedAccounts, a)) <= 1

\* the whitelist entry of the address holds the metadata of the last call
WhitelistHoldsLastCall ==
    ListOpDone("addToWhitelist") =>
        LET op == Val(domOp)
            list == Val(domain).allowedAccounts
        IN  /\ EntriesOf(list, op.address) # {}
            /\ \A i \in EntriesOf(list, op.address) :
                    /\ list[i].email = op.arg
                    /\ list[i].approvedBy = "admin"
                    /\ list[i].approvedAt = op.at

\* the blacklist entry of the address holds the metadata of the last call
BlacklistHoldsLastCall ==
    ListOpDone("addToBlacklist") =>
        LET op == Val(domOp)
            list == Val(domain).blockedAccounts
        IN  /\ EntriesOf(list, op.address) # {}
            /\ \A i \in EntriesOf(list, op.address) :
                    /\ list[i].reason = op.arg
                    /\ list[i].blockedBy = "admin"
                    /\ list[i].blockedAt = op.at

(* C16: addToWhitelist and addToBlacklist are upserts keyed by address:
   after any sequence of calls each address has at most one entry per list,
   and re-adding an address replaces the metadata of its entry (whitelist:
   email, approvedBy, approvedAt; blacklist: reason, blockedBy, blockedAt). *)
C16_UpsertReplacesMetadata ==
    /\ OneEntryPerAddress
    /\ WhitelistHoldsLastCall
    /\ BlacklistHoldsLastCall

-----------------------------------------------------------------------------
(* Access Gate: updateKYCStatus *)

\* the address has a whitelist entry in the active domain
HasEntryInActiveDomain(a) ==
    /\ ~NoActiveDomain
    /\ InList(Val(domain).allowedAccounts, a)

\* what a step of updateKYCStatus(a, status) leaves as it was: the record of
\* the domain but for its whitelist, and every whitelist entry of another
\* address; the entry of the address keeps its address, e-mail and approver
KYCStepKeepsTheRest(a) ==
    /\ IsNull(domain) <=> IsNull(domain')
    /\ ~IsNull(domain) =>
        LET d == Val(domain)
            e == Val(domain')
        IN  /\ e.domainType = d.domainType
            /\ e.status = d.status
            /\ e.settings = d.settings
            /\ e.blockedAccounts = d.blockedAccounts
            /\ Len(e.allowedAccounts) = Len(d.allowedAccounts)
            /\ \A i \in 1 .. Len(d.allowedAccounts) :
                    IF d.allowedAccounts[i].address = a
                    THEN /\ e.allowedAccounts[i].address = a
                         /\ e.allowedAccounts[i].email = d.allowedAccounts[i].email
                         /\ e.allowedAccounts[i].approvedBy = d.allowedAccounts[i].approvedBy
                    ELSE e.allowedAccounts[i] = d.allowedAccounts[i]

\* without an entry of the address in an active domain the call reports a
\* failure and leaves the domain as it was; with one, a valid status is
\* written to the entry
KYCStepOutcome(a, status) ==
    IF HasEntryInActiveDomain(a) /\ IsValidKYCStatus(status)
    THEN /\ Val(domOp').success
         /\ \A i \in EntriesOf(Val(domain').allowedAccounts, a) :
                Val(domain').allowedAccounts[i].kycStatus = status
    ELSE /\ ~Val(domOp').success
         /\ Val(domOp').error # "none"
         /\ domain' = domain

(* C17: updateKYCStatus(address, status) changes only the whitelist entry of
   that address; for an address with no entry in an active domain it returns
   a reported failure and leaves the domain unchanged; it changes the entry
   of no other address. *)
C17_UpdateKYCOnlyThatEntry ==
    [][\A a \in AddressInputCases, status \in StatusInputCases :
            UpdateKYCStatus(a, status) =>
                /\ KYCStepKeepsTheRest(a)
                /\ KYCStepOutcome(a, status)]_vars

\* updateKYCStatus succeeded for an address while another address holds an
\* entry with a different status
C17_Witness ==
    /\ ~IsNull(domOp)
    /\ Val(domOp).op = "updateKYCStatus"
    /\ Val(domOp).success
    /\ ~IsNull(domain)
    /\ \E i, j \in 1 .. Len(Val(domain).allowedAccounts) :
            /\ Val(domain).allowedAccounts[i].address = Val(domOp).address
            /\ Val(domain).allowedAccounts[i].kycStatus = Val(domOp).arg
            /\ Val(domain).allowedAccounts[j].address # Val(domOp).address
            /\ Val(domain).allowedAccounts[j].kycStatus # Val(domOp).arg

-----------------------------------------------------------------------------
(* Rate Registry: bid and ask of the stored records, and the conversions *)

Currencies == {"XRP", "KRW"}

KRWXRP == "KRW/XRP"

\* the pair that getCurrentRate(baseCurrency, quoteCurrency) looks up
PairOf(base, quote) ==
    IF base = "XRP" /\ quote = "KRW" THEN XRPKRW
    ELSE IF base = "KRW" /\ quote = "XRP" THEN KRWXRP
    ELSE "none"

\* rate.baseCurrency
BaseCurrencyOf(pair) ==
    IF pair = XRPKRW THEN "XRP" ELSE IF pair = KRWXRP THEN "KRW" ELSE "BTC"

\* a rate of the market, and zero
BookRateCases == {4197 * Scale, 0}

\* the spread is left out of the request, or is 0.01
BookSpreadCases == {Null, Some(10)}

\* rate of a PUT body: left out, zero, a new rate
PutRateCases == {Null, Some(0), Some(5000 * Scale)}

\* spread of a PUT body: left out, a new spread
PutSpreadCases == {Null, Some(20)}

ConvAmountCases == {100 * Scale}

\* AdminExchangeRateService.updateXRPKRWRate(newRate, spread = 0.001) with
\* any rate the schema accepts
UpdateXRPKRWRate_Begin(p) ==
    \E newRate \in BookRateCases, spread \in BookSpreadCases :
        /\ rproc[p].pc = "idle"
        /\ BeginSetRate(p, "updateXRPKRWRate", XRPKRW, newRate,
                        IF IsNull(spread) THEN DefaultSpread ELSE Val(spread),
                        "MANUAL", Null, Null, Null)

\* one item of POST /batch-update: the rate of the item is not checked, the
\* spread is the one of the item or the schema default
PostBatchUpdate_UpdateMany(p) ==
    \E pair \in {XRPKRW, KRWXRP}, rate \in BookRateCases :
        /\ rproc[p].pc = "idle"
        /\ BeginSetRate(p, "postBatchUpdate", pair, rate, DefaultSpread,
                        "MANUAL", Null, Null, Null)

PostBatchUpdate_Save(p) ==
    /\ Saving(p)
    /\ rproc[p].op = "postBatchUpdate"
    /\ SaveNewRate(p)

\* PUT /rates/:id with rate and spread: 400 when the rate is given and not
\* positive; otherwise assign what is given and save (validation, then the
\* pre-save hook)
PutRatesRateSpread(p) ==
    \E i \in 1 .. Len(rates), rate \in PutRateCases, spread \in PutSpreadCases :
        /\ rproc[p].pc = "idle"
        /\ IF ~IsNull(rate) /\ Val(rate) <= 0
           THEN rates' = rates
           ELSE LET doc == [rates[i] EXCEPT
                                !.rate = IF IsNull(rate) THEN @ ELSE Val(rate),
                                !.spread = IF IsNull(spread) THEN @ ELSE Val(spread)]
                IN  IF ValidateRate(doc, "MANUAL")
                    THEN rates' = [rates EXCEPT ![i] = PreSave(doc)]
                    ELSE rates' = rates
        /\ lastOp' = [lastOp EXCEPT ![p] = Null]
        /\ rateQuery' = Null
        /\ UNCHANGED <<now, rproc, feeVars, swapVars, queryVars, opVars>>

\* a JavaScript number: finite, Infinity or NaN
Num(v) == [kind |-> "number", value |-> v]

Infinity == [kind |-> "Infinity", value |-> 0]

NaN == [kind |-> "NaN", value |-> 0]

\* amount * x, where x may be undefined
JsMul(amount, x) ==
    IF IsNull(x) THEN NaN ELSE Num(FMul(amount, Val(x)))

\* amount / x, where x may be undefined: no error on a zero divisor
JsDiv(amount, x) ==
    IF IsNull(x) THEN NaN
    ELSE IF Val(x) = 0 THEN (IF amount = 0 THEN NaN ELSE Infinity)
    ELSE Num((amount * Scale) \div Val(x))

\* an error outcome
ConvFailed ==
    [success |-> FALSE, rateId |-> 0, direction |-> "none", convertedAmount |-> NaN]

\* a successful outcome that carries a converted amount
ConvOk(rateId, direction, convertedAmount) ==
    [success |-> TRUE, rateId |-> rateId, direction |-> direction,
     convertedAmount |-> convertedAmount]

\* AdminExchangeRateService.calculateSwapRate(amount, fromCurrency,
\* toCurrency) with the spread: the possible outcomes
CalculateSwapRate(store, amount, from, to, t) ==
    {IF IsNull(res) THEN ConvFailed
     ELSE IF from = BaseCurrencyOf(Val(res).pair)
          THEN ConvOk(Val(res).id, "base_to_quote", JsMul(amount, Val(res).bidRate))
          ELSE ConvOk(Val(res).id, "quote_to_base", JsDiv(amount, Val(res).askRate))
     : res \in GetCurrentRate(store, PairOf(from, to), t)}

\* AdminIOUService.convertKRWToXRP(krwAmount): the possible outcomes
ConvertKRWToXRP(store, krwAmount, t) ==
    {IF IsNull(res) THEN ConvFailed
     ELSE ConvOk(Val(res).id, "quote_to_base", JsDiv(krwAmount, Some(Val(res).rate)))
     : res \in GetCurrentRate(store, XRPKRW, t)}

\* ExchangeRateSchema.methods.convertAmount(amount, direction)
ConvertAmount(doc, amount, direction) ==
    IF direction = "base_to_quote"
    THEN JsMul(amount, Some(doc.rate))
    ELSE JsDiv(amount, Some(doc.rate))

\* what the last conversion returned
ConvResult(op, amount, from, to, result) ==
    [op |-> op, amount |-> amount, from |-> from, to |-> to, result |-> result]

ConvFrame ==
    UNCHANGED <<rates, now, rproc, lastOp, feeVars, swapVars, queryVars, opVars>>

CalculateSwapRateCall ==
    \E amount \in ConvAmountCases, from \in Currencies, to \in Currencies :
        /\ from # to
        /\ \E result \in CalculateSwapRate(rates, amount, from, to, now) :
                rateQuery' = Some(ConvResult("calculateSwapRate", amount, from, to, result))
        /\ ConvFrame

ConvertKRWToXRPCall ==
    \E krwAmount \in ConvAmountCases :
        /\ \E result \in ConvertKRWToXRP(rates, krwAmount, now) :
                rateQuery' = Some(ConvResult("convertKRWToXRP", krwAmount, "KRW", "XRP", result))
        /\ ConvFrame

\* POST /convert: the record of the rateId when one is given, otherwise the
\* current record of fromCurrency/toCurrency; 404 without a record
PostConvertOutcomes(store, amount, from, to, rateId, t) ==
    {IF IsNull(res) THEN ConvFailed
     ELSE LET direction == IF from = BaseCurrencyOf(Val(res).pair)
                           THEN "base_to_quote" ELSE "quote_to_base"
          IN  ConvOk(Val(res).id, direction, ConvertAmount(Val(res), amount, direction))
     : res \in IF IsNull(rateId)
               THEN GetCurrentRate(store, PairOf(from, to), t)
               ELSE {Some(store[Val(rateId)])}}

PostConvert ==
    \E amount \in ConvAmountCases, from \in Currencies, to \in Currencies,
       rateId \in {Null} \cup {Some(i) : i \in 1 .. Len(rates)} :
        /\ from # to
        /\ \E result \in PostConvertOutcomes(rates, amount, from, to, rateId, now) :
                rateQuery' = Some(ConvResult("convert", amount, from, to, result))
        /\ ConvFrame

NextRateBook ==
    \/ UpdateXRPKRWRate_Begin(1)
    \/ UpdateXRPKRWRate_Save(1)
    \/ PostBatchUpdate_UpdateMany(1)
    \/ PostBatchUpdate_Save(1)
    \/ PutRatesRateSpread(1)
    \/ DeactivateRate(1)
    \/ CalculateSwapRateCall
    \/ ConvertKRWToXRPCall
    \/ PostConvert

SpecRateBook == InitRate /\ [][NextRateBook]_vars

\* bid and ask of the record are the rate less and plus the spread
BidAskFollowRate(r) ==
    /\ ~IsNull(r.bidRate)
    /\ ~IsNull(r.askRate)
    /\ Val(r.bidRate) = FMul(r.rate, Scale - r.spread)
    /\ Val(r.askRate) = FMul(r.rate, Scale + r.spread)

(* C18: every persisted ExchangeRate record, after any sequence of create and
   update operations (save of a new record, PUT of rate or spread,
   deactivation by updateMany), has bidRate = rate * (1 - spread) and
   askRate = rate * (1 + spread) for its current rate and spread. *)
C18_BidAskInvariant ==
    \A i \in 1 .. Len(rates) : BidAskFollowRate(rates[i])

\* the current records of the pair stored as XRP/KRW
CurrentXRPKRW == CurrentRateIds(rates, XRPKRW, now)

\* calculateSwapRate was called while every current record of the pair
\* stored as XRP/KRW holds a bid and an ask
SwapRateAnswered ==
    /\ ~IsNull(rateQuery)
    /\ Val(rateQuery).op = "calculateSwapRate"
    /\ CurrentXRPKRW # {}
    /\ \A i \in CurrentXRPKRW : BidAskFollowRate(rates[i])

(* C19: for the pair stored as (XRP, KRW) with a current record,
   calculateSwapRate with the spread returns amount * bidRate of that record
   when the caller sells the base currency (from = XRP), and amount / askRate
   of that record when the caller buys it (from = KRW). *)
C19_BidWhenSellingAskWhenBuying ==
    SwapRateAnswered =>
        LET q == Val(rateQuery) IN
        /\ q.result.success
        /\ q.result.rateId \in CurrentXRPKRW
        /\ q.from = "XRP" =>
                q.result.convertedAmount =
                    JsMul(q.amount, rates[q.result.rateId].bidRate)
        /\ q.from = "KRW" =>
                q.result.convertedAmount =
                    JsDiv(q.amount, rates[q.result.rateId].askRate)

\* a conversion from KRW to XRP was asked while the current record of
\* XRP/KRW has rate 0
ZeroRateQuoteToBase ==
    /\ ~IsNull(rateQuery)
    /\ Val(rateQuery).from = "KRW"
    /\ Val(rateQuery).to = "XRP"
    /\ CurrentXRPKRW # {}
    /\ \A i \in CurrentXRPKRW : rates[i].rate = 0
    /\ Val(rateQuery).op = "convert" => Val(rateQuery).result.rateId \in CurrentXRPKRW

(* C20: a quote-to-base conversion (convertAmount with quote_to_base,
   convertKRWToXRP, calculateSwapRate) against a current record whose rate is
   0 returns an error outcome, never a successful result that carries a
   converted amount. *)
C20_ZeroRateIsAnError ==
    ZeroRateQuoteToBase => ~Val(rateQuery).result.success

-----------------------------------------------------------------------------
(* Issuance: AdminIOUService.getTotalIssuedAmount *)

\* const KRW_CURRENCY = "KRW"
KRW_CURRENCY == "KRW"

\* the number of trust lines the ledger reports for the issuer
MaxLines == 2

\* balances as account_lines reports them, from the side of the issuer:
\* negative when the counterparty holds the issuer's IOU, positive when the
\* issuer holds an IOU of the counterparty
BalanceCases == {"-100", "-25.5", "0", "50"}

\* parseFloat(line.balance)
ParseFloat(balance) ==
    CASE balance = "-100"  -> 0 - 100 * Scale
      [] balance = "-25.5" -> 0 - 25500
      [] balance = "0"     -> 0
      [] balance = "50"    -> 50 * Scale

\* Math.abs
Abs(x) == IF x < 0 THEN 0 - x ELSE x

LineCases == [currency : {KRW_CURRENCY, "USD"}, balance : BalanceCases]

RECURSIVE SumLines(_)
\* forEach over linesResult.lines: totalIssued += Math.abs(parseFloat(balance))
\* for the lines of the KRW currency
SumLines(ls) ==
    IF ls = <<>> THEN 0
    ELSE SumLines(Tail(ls))
         + (IF Head(ls).currency = KRW_CURRENCY
            THEN Abs(ParseFloat(Head(ls).balance)) ELSE 0)

IssuedIdle == [pc |-> "idle", clientOpen |-> FALSE, result |-> Null]

\* what getTotalIssuedAmount returned; thrown when the exception of
\* connectClient left the function
IssuedResult(ok, total, thrown) ==
    [success |-> ok, totalIssued |-> total, thrown |-> thrown]

IssuedFrame ==
    UNCHANGED <<feeVars, rateVars, swapVars, queryVars, domOp, dproc, lines>>

\* getTotalIssuedAmount up to connectClient
GetTotalIssuedAmount ==
    /\ issued.pc = "idle"
    /\ IsNull(issued.result)
    /\ IF ~adminInit
       THEN issued' = [issued EXCEPT !.result = Some(IssuedResult(FALSE, 0, FALSE))]
       ELSE issued' = [issued EXCEPT !.pc = "connect"]
    /\ IssuedFrame

\* XRPLService.connectClient: it connects, or it throws outside the try
GetTotalIssuedConnect ==
    /\ issued.pc = "connect"
    /\ \E connected \in BOOLEAN :
        IF connected
        THEN issued' = [issued EXCEPT !.pc = "lines", !.clientOpen = TRUE]
        ELSE issued' = [issued EXCEPT !.pc = "idle",
                                      !.result = Some(IssuedResult(FALSE, 0, TRUE))]
    /\ IssuedFrame

\* XRPLService.getAccountLines returns the lines or a failure; the total is
\* returned, or the error that was thrown and caught; the client is
\* disconnected in the finally block
GetTotalIssuedLines ==
    /\ issued.pc = "lines"
    /\ \E answered \in BOOLEAN :
        issued' = [pc |-> "idle", clientOpen |-> FALSE,
                   result |-> IF answered
                              THEN Some(IssuedResult(TRUE, SumLines(lines), FALSE))
                              ELSE Some(IssuedResult(FALSE, 0, FALSE))]
    /\ IssuedFrame

\* the trust lines of the issuer on the ledger, and nothing stored
InitIssued ==
    /\ lines \in UNION {[1 .. n -> LineCases] : n \in 0 .. MaxLines}
    /\ issued = IssuedIdle
    /\ adminInit \in BOOLEAN
    /\ feeQuery = Null /\ permQuery = Null /\ domOp = Null /\ dproc = <<>>
    /\ domain = Null /\ feeConfigs = <<>>
    /\ swap = SwapIdle /\ ledger = <<>> /\ swapResult = Null /\ swapCount = 0
    /\ rates = <<>> /\ now = 0 /\ rproc = <<>> /\ lastOp = <<>> /\ rateQuery = Null
    /\ feeCfg = <<>> /\ feeAmount = 0 /\ feeOut = Null

NextIssued ==
    \/ GetTotalIssuedAmount
    \/ GetTotalIssuedConnect
    \/ GetTotalIssuedLines

SpecIssued == InitIssued /\ [][NextIssued]_vars

\* the positions of the KRW lines with a negative balance
NegativeKRWLines ==
    {i \in 1 .. Len(lines) :
        lines[i].currency = KRW_CURRENCY /\ ParseFloat(lines[i].balance) < 0}

RECURSIVE SumOver(_)
\* the sum of the absolute balances of the lines at the positions
SumOver(positions) ==
    IF positions = {} THEN 0
    ELSE LET i == CHOOSE j \in positions : TRUE
         IN  Abs(ParseFloat(lines[i].balance)) + SumOver(positions \ {i})

(* C21: getTotalIssuedAmount returns the sum of the absolute values of
   exactly the negative balances among the trust lines of the issuer in the
   KRW currency; lines of another currency and lines with a zero or positive
   balance contribute nothing; the operation submits no ledger transaction
   and writes nothing to the store. *)
C21_TotalIssuedSumsNegativeKRW ==
    /\ (~IsNull(issued) /\ ~IsNull(issued.result) /\ Val(issued.result).success)
            => Val(issued.result).totalIssued = SumOver(NegativeKRWLines)
    /\ ~IsNull(issued) =>
            /\ ledger = <<>>
            /\ rates = <<>> /\ feeConfigs = <<>> /\ domain = Null

-----------------------------------------------------------------------------
(* Rate Registry and Fee Policy Store: the writers of the stored records *)

\* feeType of a PUT body: left out, or FIXED
PutFeeTypeCases == {Null, Some("FIXED")}

\* baseFee of a PUT body: left out, a new fee, a negative fee
PutBaseFeeCases == {Null, Some(300 * Scale), Some(0 - Scale)}

\* schema validation on save: baseFee min 0, minFee min 0, feeType in the enum
ValidateFeeConfig(c) ==
    /\ c.baseFee >= 0
    /\ c.minFee >= 0
    /\ c.feeType \in FeeTypes

\* PUT /configs/:id: findById, assign what the body holds, save
PutConfigs ==
    \E i \in 1 .. Len(feeConfigs), feeType \in PutFeeTypeCases,
       baseFee \in PutBaseFeeCases, isActive \in {Null, Some(FALSE)} :
        /\ LET c == [feeConfigs[i] EXCEPT
                        !.feeType = IF IsNull(feeType) THEN @ ELSE Val(feeType),
                        !.baseFee = IF IsNull(baseFee) THEN @ ELSE Val(baseFee),
                        !.isActive = IF IsNull(isActive) THEN @ ELSE Val(isActive)]
           IN  IF ValidateFeeConfig(c)
               THEN feeConfigs' = [feeConfigs EXCEPT ![i] = c]
               ELSE feeConfigs' = feeConfigs
        /\ feeQuery' = Null
        /\ UNCHANGED <<domain, adminInit, swap, ledger, swapResult, swapCount,
                       feeVars, rateVars, permQuery, opVars>>

\* new SwapFeeConfig({swapType, feeType: 'PERCENTAGE', baseFee: 0.003,
\* minFee: 0, maxFee: null}): effectiveFrom defaults to the time of creation
DefaultFeeConfig(id, swapType, t) ==
    [id |-> id, swapType |-> swapType, feeType |-> "PERCENTAGE",
     baseFee |-> SWAP_FEE_RATE, minFee |-> 0, maxFee |-> Null, tieredRates |-> <<>>,
     isActive |-> TRUE, effectiveFrom |-> t, effectiveTo |-> Null]

\* one round of the loop of initializeDefaultSwapFees: the default is saved
\* when getCurrentFeeConfig finds no configuration of the swap type
SeedDefaultFee(store, swapType, t) ==
    IF CurrentFeeConfigIds(store, swapType, t) = {}
    THEN Append(store, DefaultFeeConfig(Len(store) + 1, swapType, t))
    ELSE store

\* AdminExchangeRateService.initializeDefaultSwapFees
InitializeDefaultSwapFees ==
    /\ Len(feeConfigs) < MaxConfigs
    /\ feeConfigs' = SeedDefaultFee(SeedDefaultFee(SeedDefaultFee(feeConfigs,
                        "XRP_TO_KRW", now), "KRW_TO_XRP", now), "IOU_TRANSFER", now)
    /\ feeQuery' = Null
    /\ UNCHANGED <<domain, adminInit, swap, ledger, swapResult, swapCount,
                   feeVars, rateVars, permQuery, opVars>>

\* the service and the admin routes write the two collections
NextVersions ==
    \/ UpdateXRPKRWRate_Begin(1)
    \/ UpdateXRPKRWRate_Save(1)
    \/ PutRatesRateSpread(1)
    \/ InitializeDefaultSwapFees
    \/ PutConfigs
    \/ DeactivateConfig

SpecVersions == InitRate /\ [][NextVersions]_vars

\* the pricing fields of a rate record
RatePricing(r) ==
    [id |-> r.id, rate |-> r.rate, spread |-> r.spread,
     bidRate |-> r.bidRate, askRate |-> r.askRate]

\* the pricing fields of a fee configuration
FeePricing(c) ==
    [id |-> c.id, feeType |-> c.feeType, baseFee |-> c.baseFee,
     minFee |-> c.minFee, maxFee |-> c.maxFee, tieredRates |-> c.tieredRates]

(* C22: rate and fee-configuration records are append-only versions: no
   operation (admin PUT, deactivation, setRate, scheduled fetch) changes the
   pricing fields of a record that exists (rate, spread, bidRate, askRate;
   feeType, baseFee, minFee, maxFee, tieredRates) or deletes it. *)
C22_RecordsAreAppendOnly ==
    [][/\ Len(rates') >= Len(rates)
       /\ \A i \in 1 .. Len(rates) : RatePricing(rates'[i]) = RatePricing(rates[i])
       /\ Len(feeConfigs') >= Len(feeConfigs)
       /\ \A i \in 1 .. Len(feeConfigs) :
                FeePricing(feeConfigs'[i]) = FeePricing(feeConfigs[i])]_vars

-----------------------------------------------------------------------------
(* Swap Orchestrator: the quote and the transactions of a swap *)

\* the ledger transactions of the swap that was requested last
TxOfSwap == {i \in 1 .. Len(ledger) : ledger[i].swap = swapCount}

(* C23: in every swap the quote is fixed before execution: no ledger
   transaction of the swap is submitted before its fee has been resolved,
   and the amount of the counter-asset leg is the netAmount of that quote;
   processIOUToXRPSwap does not submit leg 1 before calculateSwapFee has
   returned. *)
C23_QuoteBeforeExecution ==
    \A i \in TxOfSwap :
        /\ ~IsNull(swap.fee)
        /\ ledger[i].leg \in {"issue", "payout"} =>
                ledger[i].amount = Val(swap.fee).netAmount

(* C27: for a swap whose fee quote has netAmount <= 0 no ledger transaction
   is submitted; a redemption swap does not submit leg 1 when the payout of
   leg 2 would be non-positive. *)
C27_NoTxWhenNetNotPositive ==
    (~IsNull(swap.fee) /\ Val(swap.fee).netAmount <= 0) => TxOfSwap = {}


-----------------------------------------------------------------------------
(* Specification SpecSwapLive: the swap requests of SpecSwap where every call
   the orchestrator awaits returns: XRPLService.connectClient, submitAndWait
   and the validation of a submitted payment each take their step once they
   are enabled.  Requests arrive when callers make them, under no fairness. *)

SwapSteps ==
    \/ IssueConnect
    \/ IssueSubmit
    \/ IssueReturn
    \/ RedeemConnect
    \/ Leg1Submit
    \/ Leg1Return
    \/ Leg2Submit
    \/ Leg2Return

SpecSwapLive == SpecSwap /\ WF_vars(SwapSteps)

SwapRunning == swap.pc # "idle"

\* a request that is over has delivered {success, ...} and holds no connection
SwapDelivered ==
    SwapOver =>
        /\ ~IsNull(swapResult)
        /\ Val(swapResult).success \in BOOLEAN
        /\ Val(swapResult).success = IsNull(Val(swapResult).error)
        /\ ~swap.clientOpen

\* C24: when every awaited call returns, each swap request comes to an end
\* with one structured result {success: true, ...} or {success: false, error}:
\* a result is delivered only by the step that ends the request, nothing is
\* thrown past requestXRPToIOUSwap / requestIOUToXRPSwap, and the client
\* connected for the swap is disconnected when the request is over.
C24_SwapTerminatesWithOneResult ==
    /\ [] SwapDelivered
    /\ [][ /\ (swapResult' # swapResult => SwapRunning' = FALSE)
           /\ (SwapRunning /\ ~SwapRunning' => ~IsNull(swapResult'))
           /\ (swapCount' # swapCount => ~SwapRunning) ]_vars
    /\ (SwapRunning ~> ~SwapRunning)

\* a swap that submitted a payment has failed, returned its result and closed
\* its connection
C24_Witness ==
    /\ SwapOver /\ TxOfSwap # {}
    /\ ~IsNull(swapResult) /\ ~Val(swapResult).success
    /\ ~swap.clientOpen


-----------------------------------------------------------------------------
(* Fee Policy Store: one current configuration per swap type *)

\* C25: whatever fee configurations have been created, at most one record of
\* a swap type satisfies the current predicate (active, effectiveFrom <= now,
\* effectiveTo null or >= now): a creation retires the previous record.
C25_OneCurrentFeeConfigPerType ==
    \A swapType \in SwapTypes :
        Cardinality(CurrentFeeConfigIds(feeConfigs, swapType, now)) <= 1


-----------------------------------------------------------------------------
(* Rate Registry: a setRate operation whose insert fails *)

\* the operation process p has begun will fail at exchangeRate.save()
InsertWillFail(p) ==
    /\ Saving(p)
    /\ rproc[p].op \in {"updateXRPKRWRate", "saveExchangeRate"}
    /\ rproc[p].rate < 0

\* C26: setRate is all-or-nothing.  Neither step of updateXRPKRWRate or
\* saveExchangeRate whose insert fails validation changes the registry: the
\* record that was current before the call stays active and current.
C26_SetRateAllOrNothing ==
    [][ /\ (~Saving(1) /\ InsertWillFail(1)') => rates' = rates
        /\ (InsertWillFail(1) /\ ~Saving(1)') => rates' = rates ]_vars


-----------------------------------------------------------------------------
(* Rate Registry: the record a rate-creation route has just inserted *)

\* POST /rates has answered 200 to process p and the clock has not moved
PostRatesJustDone(p) ==
    /\ SetRateDone(p)
    /\ Val(lastOp[p]).op = "postRates"
    /\ Val(lastOp[p]).at = now

\* C28: once POST /rates has succeeded, getCurrentRate of the pair returns the
\* record it inserted, whatever validFrom and validTo the request carried.
C28_CreatedRateIsCurrent ==
    PostRatesJustDone(1) =>
        \A res \in GetCurrentRate(rates, Inserted(1).pair, now) :
            ~IsNull(res) /\ Val(res).id = Inserted(1).id


-----------------------------------------------------------------------------
(* Access Gate: a blacklisted address *)

\* C29: once addToBlacklist(a) has succeeded, checkTrustLinePermission(a)
\* returns allowed = false, whatever the domainType of the active domain (a
\* whitelist domain in which a is whitelisted included).
C29_BlacklistedIsDenied ==
    (/\ ~IsNull(permQuery)
     /\ ~NoActiveDomain
     /\ InList(Val(domain).blockedAccounts, Val(permQuery).address))
    => ~Val(permQuery).result.allowed


-----------------------------------------------------------------------------
(* Access Gate: two callers of the whitelist operations whose awaits
   interleave.  Each operation reads the domain document (findOne), changes
   its copy with the schema method addToWhitelist and awaits domain.save(),
   which sends the changes of the copy to the store: a pushed entry as a
   $push that also increments the document version, fields of an existing
   entry as a $set by position that requires the version the copy was read
   with. *)

\* User.findById: the registered users, by id
UserIds == {"u1", "u2", "unknown"}

FindUserById(userId) ==
    CASE userId = "u1" -> Some([wallet |-> "rAlice", email |-> "a@x.io"])
      [] userId = "u2" -> Some([wallet |-> "rBob", email |-> "b@x.io"])
      [] OTHER         -> Null

DomProcIdle ==
    [pc |-> "idle", op |-> "none", address |-> "none", email |-> "none",
     approvedBy |-> "none", doc |-> Null, last |-> Null]

\* the caller holds the document findOne returned and awaits save()
DomProcLoaded(p, op, a, email, approvedBy) ==
    dproc' = [dproc EXCEPT ![p] =
                [pc |-> "save", op |-> op, address |-> a, email |-> email,
                 approvedBy |-> approvedBy, doc |-> domain, last |-> Null]]

\* the caller returns {success, error} without having read a document
DomProcReturned(p, op, a, ok, error) ==
    dproc' = [dproc EXCEPT ![p] =
                [DomProcIdle EXCEPT !.op = op, !.address = a,
                    !.last = Some([success |-> ok, error |-> error])]]

WhitelistFrame ==
    UNCHANGED <<adminInit, feeConfigs, swap, ledger, swapResult, swapCount,
                feeVars, rateVars, queryVars, domOp, lines, issued>>

\* AdminDomainService.addToWhitelist(a, 'a@x.io', 'admin'), the e-mail address
\* being a valid one, up to the await on domain.save()
AddToWhitelist_FindOne(p) ==
    /\ dproc[p].pc = "idle"
    /\ \E a \in AddressInputCases :
        /\ IF ~IsValidXRPAddress(a)
           THEN DomProcReturned(p, "addToWhitelist", a, FALSE, "Invalid user address")
           ELSE IF IsNull(ActiveDomain(domain))
                   \/ Val(domain).domainType \notin {"whitelist", "kyc_required"}
           THEN DomProcReturned(p, "addToWhitelist", a, FALSE,
                                "Active whitelist domain not found")
           ELSE DomProcLoaded(p, "addToWhitelist", a, "a@x.io", "admin")
    /\ UNCHANGED domain
    /\ WhitelistFrame

\* AdminDomainService.autoAddUserToWhitelist up to the await on domain.save()
AutoAddUserToWhitelist_FindOne(p) ==
    /\ dproc[p].pc = "idle"
    /\ \E userId \in UserIds :
        LET user == FindUserById(userId) IN
        IF IsNull(user)
        THEN DomProcReturned(p, "autoAddUserToWhitelist", "none", FALSE, "User not found")
        ELSE IF IsNull(ActiveDomain(domain)) \/ ~Val(domain).settings.autoApproval
        THEN DomProcReturned(p, "autoAddUserToWhitelist", Val(user).wallet, FALSE,
                             "Auto approval not enabled")
        ELSE DomProcLoaded(p, "autoAddUserToWhitelist", Val(user).wallet,
                           Val(user).email, "auto_registration")
    /\ UNCHANGED domain
    /\ WhitelistFrame

\* domain.addToWhitelist(...) on the copy, then domain.save(): the store
\* applies the changes of the copy to the document it holds
WhitelistSave(p) ==
    /\ dproc[p].pc = "save"
    /\ LET r      == dproc[p]
           copy   == Val(r.doc)
           stored == Val(domain)
           i      == FindIndex(copy.allowedAccounts, r.address)
       IN  IF i > 0
           THEN IF stored.version = copy.version
                THEN /\ domain' = Some([stored EXCEPT
                                    !.allowedAccounts[i].email = r.email,
                                    !.allowedAccounts[i].approvedAt = now,
                                    !.allowedAccounts[i].approvedBy = r.approvedBy])
                     /\ DomProcReturned(p, r.op, r.address, TRUE, "none")
                ELSE /\ UNCHANGED domain
                     /\ DomProcReturned(p, r.op, r.address, FALSE, "VersionError")
           ELSE /\ domain' = Some([stored EXCEPT
                        !.allowedAccounts = Append(@,
                            [address |-> r.address, email |-> r.email,
                             kycStatus |-> IF copy.settings.requireKYC
                                           THEN "pending" ELSE "verified",
                             approvedAt |-> now, approvedBy |-> r.approvedBy]),
                        !.version = @ + 1])
                /\ DomProcReturned(p, r.op, r.address, TRUE, "none")
    /\ WhitelistFrame

\* an active whitelist domain as initializeDomain creates it, with empty
\* lists, automatic approval switched on or off
WhitelistDomainCases ==
    { Some([domainType |-> "whitelist", status |-> "active",
            allowedAccounts |-> <<>>, blockedAccounts |-> <<>>,
            settings |-> [requireKYC |-> FALSE, autoApproval |-> auto],
            version |-> 0]) : auto \in BOOLEAN }

InitWhitelistConc ==
    /\ domain \in WhitelistDomainCases
    /\ adminInit = TRUE
    /\ now = 0
    /\ dproc = [p \in Procs |-> DomProcIdle]
    /\ rates = <<>> /\ rproc = <<>> /\ lastOp = <<>> /\ rateQuery = Null
    /\ feeCfg = <<>> /\ feeAmount = 0 /\ feeOut = Null
    /\ feeConfigs = <<>>
    /\ swap = SwapIdle /\ ledger = <<>> /\ swapResult = Null /\ swapCount = 0
    /\ feeQuery = Null /\ permQuery = Null /\ domOp = Null
    /\ lines = <<>> /\ issued = Null

NextWhitelistConc ==
    \/ \E p \in Procs : AddToWhitelist_FindOne(p)
    \/ \E p \in Procs : AutoAddUserToWhitelist_FindOne(p)
    \/ \E p \in Procs : WhitelistSave(p)

SpecWhitelistConc == InitWhitelistConc /\ [][NextWhitelistConc]_vars

\* both callers are between operations
WhitelistQuiet == \A p \in Procs : dproc[p].pc = "idle"

\* C30: two concurrent addToWhitelist / autoAddUserToWhitelist calls behave
\* as if one ran after the other: the list never holds two entries of one
\* address, and the address of a call that returned success has its entry.
C30_WhitelistUpdatesLinearizable ==
    /\ \A a \in ValidAddresses :
            Cardinality(EntriesOf(Val(domain).allowedAccounts, a)) <= 1
    /\ WhitelistQuiet =>
            \A p \in Procs :
                (~IsNull(dproc[p].last) /\ Val(dproc[p].last).success)
                    => InList(Val(domain).allowedAccounts, dproc[p].address)

====
